---------------------------- MODULE Spec2Model ----------------------------
(***************************************************************************)
(* A model of fs/overlayfs/inode.c: the overlay inode operations           *)
(* (setattr, getattr, permission, xattr set/list, copy-up on open), the    *)
(* indexed nlink codec (ovl_set_nlink_upper/lower, ovl_get_nlink) and the  *)
(* overlay inode lookup (ovl_get_inode, ovl_hash_bylower,                  *)
(* ovl_verify_inode).                                                      *)
(*                                                                         *)
(* The module holds several specifications over one set of variables.     *)
(* Each specification moves only the variables of its part of the file    *)
(* and leaves the others at their initial value.                          *)
(***************************************************************************)
EXTENDS Integers, Sequences, FiniteSets, TLC

VARIABLES
    \* ---- nlink codec (ovl_set_nlink_*, ovl_get_nlink) ----
    i_nlink,      \* inode->i_nlink of the overlay inode
    upper,        \* the upper dentry of the codec: [present, i_nlink, xattr]
    lower,        \* the lower dentry of the codec: [present, i_nlink]
    fresh,        \* selector of the last record written and still current
    dres,         \* the last ovl_get_nlink call: [called, fallback, ret, read]
    \* ---- ovl_listxattr ----
    xnames,       \* the xattr names stored on the real inode, in list order
    capable,      \* ns_capable_noaudit(&init_user_ns, CAP_SYS_ADMIN)
    lres,         \* the last ovl_listxattr call: [called, size, ret, names]
    \* ---- ovl_getattr ----
    same_sb,      \* ovl_same_sb(sb): all layers on one filesystem
    ksu_susfs,    \* built with CONFIG_KSU_SUSFS_SUS_OVERLAYFS
    dent,         \* the overlay dentries: [lower, has_upper, is_dir, index]
    kstat,        \* per dentry, the last stat before and after copy up
    \* ---- ovl_setattr, ovl_xattr_set, ovl_open_maybe_copy_up ----
    a_upper,      \* ovl_dentry_upper(dentry) is not NULL
    a_alias,      \* ovl_dentry_has_upper_alias(dentry)
    a_special,    \* special_file(d_inode(dentry)->i_mode)
    lower_xattr,  \* the attribute of the request exists on the lower inode
    writers,      \* write accesses held on the upper mount (ovl_want_write)
    i_rwsem,      \* the task holding inode_lock(upperdentry->d_inode)
    promoted_by,  \* the task whose copy up created the upper dentry
    ovl_attr,     \* the attributes cached in the overlay inode: "fresh" (as
                  \* in the upper inode) or "stale" (the upper inode changed)
    pseen,        \* TRUE once an ovl_permission ran while ovl_attr was stale
    call,         \* per task, the operation it runs and its local variables
    \* ---- ovl_get_inode ----
    ofs,          \* the mount: [upper_mnt, indexdir, export_op]
    inodes,       \* the overlay inodes of the superblock, by slot
    lookup,       \* per task, its call of ovl_get_inode
    \* ---- ovl_hash_bylower ----
    hres,         \* the last call: [called, fs, upper, lower, index, ret]
    \* ---- ovl_permission ----
    pnode,        \* the overlay inode: [upper, lower, special]
    pres          \* the last call of ovl_permission and what it did

codecVars == <<i_nlink, upper, lower, fresh, dres>>
listVars == <<xnames, capable, lres>>
statVars == <<same_sb, ksu_susfs, dent, kstat>>
attrVars == <<a_upper, a_alias, a_special, lower_xattr, writers, i_rwsem,
              promoted_by, ovl_attr, pseen, call>>

inodeVars == <<ofs, inodes, lookup>>

hashVars == <<hres>>
permVars == <<pnode, pres>>

vars == <<codecVars, listVars, statVars, attrVars, inodeVars, hashVars,
          permVars>>

\* what the actions of one part of the file leave alone
notCodec == <<listVars, statVars, attrVars, inodeVars, hashVars, permVars>>
notList == <<codecVars, statVars, attrVars, inodeVars, hashVars, permVars>>
notStat == <<codecVars, listVars, attrVars, inodeVars, hashVars, permVars>>
notAttr == <<codecVars, listVars, statVars, inodeVars, hashVars, permVars>>
notInode == <<codecVars, listVars, statVars, attrVars, hashVars, permVars>>
notHash == <<codecVars, listVars, statVars, attrVars, inodeVars, permVars>>
notPerm == <<codecVars, listVars, statVars, attrVars, inodeVars, hashVars>>

----------------------------------------------------------------------------
(* Bounds of the model.                                                    *)

\* link counts of the physical objects start in 1..MaxNlink
MaxNlink == 4
\* one larger link count, so that two-digit deltas are written and read
BigNlink == 12
\* longest xattr value that a foreign writer stores in trusted.overlay.nlink
MaxRecLen == 3

----------------------------------------------------------------------------
(* Program constants.                                                      *)

\* char buf[13] in ovl_set_nlink_common and ovl_get_nlink
BufSize == 13
INT_MAX == 2147483647

EIO == 5
ECHILD == 10
ENOMEM == 12
ESTALE == 116
EPERM == 1
EACCES == 13
ENOSPC == 28
EROFS == 30
\* XATTR_TRUSTED_PREFIX_LEN
XATTR_TRUSTED_PREFIX_LEN == 8
EINVAL == 22
ERANGE == 34
ENODATA == 61

----------------------------------------------------------------------------
(* Characters and decimal conversion.                                      *)

DigitChars == <<"0", "1", "2", "3", "4", "5", "6", "7", "8", "9">>

IsDigit(c) == \E d \in 1..10 : DigitChars[d] = c

DigitVal(c) == (CHOOSE d \in 1..10 : DigitChars[d] = c) - 1

\* the decimal digits of a natural number, most significant first
RECURSIVE Decimal(_)
Decimal(n) ==
    IF n < 10 THEN <<DigitChars[n + 1]>>
    ELSE Decimal(n \div 10) \o <<DigitChars[(n % 10) + 1]>>

\* printf's "%+i": always a sign, then the decimal digits of the magnitude
FormatPlusI(v) ==
    IF v >= 0 THEN <<"+">> \o Decimal(v) ELSE <<"-">> \o Decimal(-v)

\* snprintf(buf, sizeof(buf), "U%+i" / "L%+i", diff): the text and its length
snprintf(sel, diff) == <<sel>> \o FormatPlusI(diff)

\* the accumulation of kstrtoull: digits only, at least one, no overflow;
\* acc is the value so far, -EINVAL or -ERANGE when the text is refused
RECURSIVE ParseDigits(_, _)
ParseDigits(s, acc) ==
    IF s = <<>> THEN acc
    ELSE IF ~IsDigit(Head(s)) THEN -EINVAL
    ELSE IF acc > (INT_MAX - DigitVal(Head(s))) \div 10 THEN -ERANGE
    ELSE ParseDigits(Tail(s), acc * 10 + DigitVal(Head(s)))

\* kstrtoint(s, 10, &res): one optional sign, then decimal digits.
\* [err |-> 0, res |-> value] or [err |-> -EINVAL / -ERANGE, res |-> 0]
kstrtoint(s) ==
    LET neg == s # <<>> /\ Head(s) = "-"
        body == IF s # <<>> /\ Head(s) \in {"+", "-"} THEN Tail(s) ELSE s
        mag == IF body = <<>> THEN -EINVAL ELSE ParseDigits(body, 0)
    IN IF mag < 0 THEN [err |-> mag, res |-> 0]
       ELSE [err |-> 0, res |-> IF neg THEN -mag ELSE mag]

----------------------------------------------------------------------------
(* The nlink codec.                                                        *)

NoXattr == [ok |-> FALSE, val |-> <<>>]
Xattr(v) == [ok |-> TRUE, val |-> v]

\* ovl_set_nlink_common(dentry, realdentry, format): the value it hands to
\* ovl_do_setxattr, or -EIO when snprintf's output does not fit the buffer.
\* i_nlink is unsigned; for counts below 2^31 the unsigned difference cast
\* to int is the signed difference.
ovl_set_nlink_common_swapped(inode_nlink, real_nlink, sel) ==
    [err |-> 0, val |-> snprintf(sel, real_nlink - inode_nlink)]

ovl_set_nlink_common(inode_nlink, real_nlink, sel) ==
    LET buf == snprintf(sel, inode_nlink - real_nlink)
    IN IF Len(buf) >= BufSize THEN [err |-> -EIO, val |-> <<>>]
       ELSE [err |-> 0, val |-> buf]

ovl_set_nlink_upper(inode_nlink, up) ==
    ovl_set_nlink_common(inode_nlink, up.i_nlink, "U")

ovl_set_nlink_lower(inode_nlink, low) ==
    ovl_set_nlink_common(inode_nlink, low.i_nlink, "L")

\* ovl_vfs_getxattr(upperdentry, OVL_XATTR_NLINK, &buf, sizeof(buf) - 1):
\* the length read, or a negative error (no such attribute, value too long)
ovl_vfs_getxattr(up) ==
    IF ~up.xattr.ok THEN -ENODATA
    ELSE IF Len(up.xattr.val) > BufSize - 1 THEN -ERANGE
    ELSE Len(up.xattr.val)

\* buf[i] of the NUL-terminated buffer, 0-based as in the code
BufAt(buf, i) == IF i < Len(buf) THEN buf[i + 1] ELSE "NUL"

\* the early return of ovl_get_nlink: nothing to reconcile
NlinkNoRecord_noLowerTest(low, up) == ~low.present \/ ~up.present

NlinkNoRecord(low, up) ==
    ~low.present \/ ~up.present \/ low.i_nlink = 1

\* the test of the selector letter and the sign character
BadRecordHead_bothBad(buf) ==
    /\ (BufAt(buf, 0) # "L" /\ BufAt(buf, 0) # "U")
    /\ (BufAt(buf, 1) # "+" /\ BufAt(buf, 1) # "-")

BadRecordHead(buf) ==
    \/ (BufAt(buf, 0) # "L" /\ BufAt(buf, 0) # "U")
    \/ (BufAt(buf, 1) # "+" /\ BufAt(buf, 1) # "-")

\* d_inode(buf[0] == 'L' ? lowerdentry : upperdentry)->i_nlink
NlinkBase_alwaysUpper(buf, low, up) == up.i_nlink

NlinkBase(buf, low, up) ==
    IF BufAt(buf, 0) = "L" THEN low.i_nlink ELSE up.i_nlink

\* the fail: label of ovl_get_nlink (the warning is not modelled)
ovl_get_nlink_fail(fallback) == [ret |-> fallback, read |-> TRUE]

\* ovl_get_nlink(lowerdentry, upperdentry, fallback):
\* [ret |-> the count returned, read |-> whether the xattr was read]
ovl_get_nlink(low, up, fallback) ==
    IF NlinkNoRecord(low, up)
    THEN [ret |-> fallback, read |-> FALSE]
    ELSE
    LET err == ovl_vfs_getxattr(up)
        buf == up.xattr.val
    IN  IF err < 0 THEN ovl_get_nlink_fail(fallback)
        ELSE IF BadRecordHead(buf) THEN ovl_get_nlink_fail(fallback)
        ELSE
        LET k == kstrtoint(Tail(buf))
            nlink == NlinkBase(buf, low, up) + k.res
        IN  IF k.err < 0 THEN ovl_get_nlink_fail(fallback)
            ELSE IF nlink <= 0 THEN ovl_get_nlink_fail(fallback)
            ELSE [ret |-> nlink, read |-> TRUE]

----------------------------------------------------------------------------
(* Initial values of the parts that a specification does not move.        *)

NoList == [called |-> FALSE, size |-> 0, ret |-> 0, names |-> <<>>]

ListIdle ==
    /\ xnames = <<>>
    /\ capable = FALSE
    /\ lres = NoList

Dentries == {"d1", "d2"}

NoStat == [called |-> FALSE, err |-> 0, dev |-> "none", ino |-> 0, nlink |-> 0]

StatIdle ==
    /\ same_sb = TRUE
    /\ ksu_susfs = FALSE
    /\ dent = [d \in Dentries |->
                 [lower |-> "none", has_upper |-> TRUE, is_dir |-> FALSE,
                  index |-> FALSE]]
    /\ kstat = [d \in Dentries |-> [pre |-> NoStat, post |-> NoStat]]

Tasks == {"t1", "t2"}

\* a task outside the file's operations.  op: the operation; pc: the next
\* statement; err: the local err; prep: what setattr_prepare returned;
\* upperdentry: the local of ovl_xattr_set; value: value != NULL;
\* wr: the open asks for write or truncate; entry_upper: a_upper at entry;
\* acq, rel: calls of ovl_want_write that succeeded, of ovl_drop_write;
\* wfail: ovl_want_write failed; cup: calls of ovl_copy_up;
\* entry_alias: a_alias at entry; ia_valid: attr->ia_valid; req: ia_valid
\* at entry; notified: notify_change was called; applied: the ia_valid it
\* was called with
IdleCall ==
    [op |-> "none", pc |-> "idle", err |-> 0, prep |-> 0,
     upperdentry |-> FALSE, value |-> FALSE, wr |-> FALSE,
     entry_upper |-> FALSE, acq |-> 0, rel |-> 0, wfail |-> FALSE,
     cup |-> 0, entry_alias |-> FALSE, ia_valid |-> {}, req |-> {},
     notified |-> FALSE, applied |-> {}]

AttrIdle ==
    /\ a_upper = FALSE
    /\ a_alias = FALSE
    /\ a_special = FALSE
    /\ lower_xattr = FALSE
    /\ writers = 0
    /\ i_rwsem = "none"
    /\ promoted_by = "none"
    /\ ovl_attr = "fresh"
    /\ pseen = FALSE
    /\ call = [t \in Tasks |-> IdleCall]

\* how many overlay inodes the superblock can hold at once
MaxInodes == 3

Slots == 1..MaxInodes

\* an inode slot that is not allocated.  state: "free", "new" (I_NEW set)
\* or "live"; hashed: in the inode hash; i_private: the key it is hashed by;
\* upper, lower: what ovl_inode_init stored; i_count: references held
FreeInode ==
    [state |-> "free", hashed |-> FALSE, i_private |-> "none",
     upper |-> "none", lower |-> "none", i_nlink |-> 0, is_dir |-> FALSE,
     i_count |-> 0]

\* a task outside ovl_get_inode.  ret: 0, the slot of the inode returned,
\* or a negative errno; found: the slot of the inode that iget5_locked found
\* in the hash, 0 when it found none
IdleLookup ==
    [pc |-> "idle", upperdentry |-> "none", lowerdentry |-> "none",
     index |-> FALSE, bylower |-> FALSE, inode |-> 0, ret |-> 0,
     found |-> 0]

InodeIdle ==
    /\ ofs = [upper_mnt |-> TRUE, indexdir |-> FALSE, export_op |-> FALSE]
    /\ inodes = [i \in Slots |-> FreeInode]
    /\ lookup = [t \in Tasks |-> IdleLookup]

\* no call of ovl_hash_bylower yet
NoHash ==
    [called |-> FALSE,
     fs |-> [upper_mnt |-> TRUE, indexdir |-> FALSE, export_op |-> FALSE],
     upper |-> "none", lower |-> "none", index |-> FALSE, ret |-> FALSE]

HashIdle == hres = NoHash

\* no call of ovl_permission yet.  mask: the mask of the caller;
\* generic: generic_permission was called; real: inode_permission was
\* called, on realinode ("upper" or "lower") with realmask; warned: the
\* WARN_ON fired
NoPerm ==
    [called |-> FALSE, mask |-> {}, generic |-> FALSE, real |-> FALSE,
     realinode |-> "none", realmask |-> {}, warned |-> FALSE, ret |-> 0]

PermIdle ==
    /\ pnode = [upper |-> FALSE, lower |-> TRUE, special |-> FALSE]
    /\ pres = NoPerm

----------------------------------------------------------------------------
(* SpecCodec: the codec in use.  A record is written by                    *)
(* ovl_set_nlink_upper/lower, the link counts move as the comment above    *)
(* OVL_NLINK_ADD_UPPER describes, and ovl_get_nlink reads the record back. *)

NlinkVals == (1..MaxNlink) \cup {BigNlink}

NoRes == [called |-> FALSE, fallback |-> 0, ret |-> 0, read |-> FALSE]

NoDentry == [present |-> FALSE, i_nlink |-> 0, xattr |-> NoXattr]
NoLower == [present |-> FALSE, i_nlink |-> 0]

CodecInit ==
    /\ i_nlink \in NlinkVals
    /\ upper \in {NoDentry} \cup
           {[present |-> TRUE, i_nlink |-> n, xattr |-> NoXattr] :
               n \in NlinkVals}
    /\ lower \in {NoLower} \cup
           {[present |-> TRUE, i_nlink |-> n] : n \in NlinkVals}
    /\ fresh = "none"
    /\ dres = NoRes
    /\ ListIdle
    /\ StatIdle
    /\ AttrIdle
    /\ InodeIdle
    /\ HashIdle
    /\ PermIdle

\* ovl_do_setxattr(ovl_dentry_upper(dentry), OVL_XATTR_NLINK, buf, len, 0)
\* succeeds and stores the value, or fails and stores nothing
StoreRecord(r, sel) ==
    \/ /\ r.err = 0
       /\ upper' = [upper EXCEPT !.xattr = Xattr(r.val)]
       /\ fresh' = sel
    \/ /\ UNCHANGED <<upper, fresh>>

SetNlinkUpper ==
    /\ upper.present
    /\ StoreRecord(ovl_set_nlink_upper(i_nlink, upper), "U")
    /\ dres' = NoRes
    /\ UNCHANGED <<i_nlink, lower>>
    /\ UNCHANGED notCodec

SetNlinkLower ==
    /\ upper.present
    /\ lower.present
    /\ StoreRecord(ovl_set_nlink_lower(i_nlink, lower), "L")
    /\ dres' = NoRes
    /\ UNCHANGED <<i_nlink, lower>>
    /\ UNCHANGED notCodec

\* case 2 of the comment: an upper hardlink is created; the union nlink
\* moves with the upper inode's nlink
UpperLink ==
    /\ upper.present
    /\ upper.i_nlink < MaxNlink
    /\ upper' = [upper EXCEPT !.i_nlink = @ + 1]
    /\ i_nlink' = i_nlink + 1
    /\ fresh' = "none"
    /\ dres' = NoRes
    /\ UNCHANGED lower
    /\ UNCHANGED notCodec

\* case 2 of the comment: an upper hardlink is unlinked or renamed over
UpperUnlink ==
    /\ upper.present
    /\ upper.i_nlink > 0
    /\ i_nlink > 0
    /\ upper' = [upper EXCEPT !.i_nlink = @ - 1]
    /\ i_nlink' = i_nlink - 1
    /\ fresh' = "none"
    /\ dres' = NoRes
    /\ UNCHANGED lower
    /\ UNCHANGED notCodec

\* case 1 of the comment: a lower hardlink is copied up; the union nlink
\* does not change but the upper inode's nlink may
LowerHardlinkCopyUp ==
    /\ upper.present
    /\ lower.present
    /\ upper.i_nlink < MaxNlink
    /\ upper' = [upper EXCEPT !.i_nlink = @ + 1]
    /\ fresh' = IF fresh = "U" THEN "none" ELSE fresh
    /\ dres' = NoRes
    /\ UNCHANGED <<i_nlink, lower>>
    /\ UNCHANGED notCodec

GetNlink(fallback) ==
    /\ ~dres.called
    /\ LET r == ovl_get_nlink(lower, upper, fallback)
       IN dres' = [called |-> TRUE, fallback |-> fallback,
                   ret |-> r.ret, read |-> r.read]
    /\ UNCHANGED <<i_nlink, upper, lower, fresh>>
    /\ UNCHANGED notCodec

\* the caller has used the count
GetNlinkReturn ==
    /\ dres.called
    /\ dres' = NoRes
    /\ UNCHANGED <<i_nlink, upper, lower, fresh>>
    /\ UNCHANGED notCodec

CodecNext ==
    \/ SetNlinkUpper
    \/ SetNlinkLower
    \/ UpperLink
    \/ UpperUnlink
    \/ LowerHardlinkCopyUp
    \/ \E fallback \in NlinkVals : GetNlink(fallback)
    \/ GetNlinkReturn

SpecCodec == CodecInit /\ [][CodecNext]_vars

----------------------------------------------------------------------------
(* SpecDecode: ovl_get_nlink over every stored value.  The attribute on    *)
(* the upper inode is any short text (the filesystem below may hold        *)
(* anything) or is missing.                                                *)

RecChars == {"U", "L", "X", "+", "-", "2"}

RECURSIVE RawRecords(_)
RawRecords(n) ==
    IF n = 0 THEN {<<>>}
    ELSE LET shorter == RawRecords(n - 1)
         IN shorter \cup {Append(r, c) : r \in shorter, c \in RecChars}

DecodeInit ==
    /\ ListIdle
    /\ StatIdle
    /\ AttrIdle
    /\ InodeIdle
    /\ HashIdle
    /\ PermIdle
    /\ i_nlink = 1
    /\ fresh = "none"
    /\ dres = NoRes
    /\ upper \in {NoDentry} \cup
           {[present |-> TRUE, i_nlink |-> n, xattr |-> x] :
               n \in NlinkVals,
               x \in {NoXattr} \cup {Xattr(r) : r \in RawRecords(MaxRecLen)}}
    /\ lower \in {NoLower} \cup
           {[present |-> TRUE, i_nlink |-> n] : n \in NlinkVals}

DecodeNext ==
    \/ \E fallback \in NlinkVals : GetNlink(fallback)
    \/ GetNlinkReturn

SpecDecode == DecodeInit /\ [][DecodeNext]_vars

----------------------------------------------------------------------------
(* ovl_listxattr: the list of the real inode with the private names        *)
(* filtered out.  A name is a sequence of characters; the list buffer      *)
(* holds the names one after the other, each closed by a NUL.              *)

XATTR_TRUSTED_PREFIX == <<"t", "r", "u", "s", "t", "e", "d", ".">>
OVL_XATTR_PREFIX ==
    XATTR_TRUSTED_PREFIX \o <<"o", "v", "e", "r", "l", "a", "y", ".">>

\* strncmp(s, prefix, n) == 0 for a prefix of n characters
strncmp_eq(s, prefix, n) ==
    Len(s) >= n /\ SubSeq(s, 1, n) = SubSeq(prefix, 1, n)

ovl_is_private_xattr(name) ==
    strncmp_eq(name, OVL_XATTR_PREFIX, Len(OVL_XATTR_PREFIX))

ovl_can_list_trustedToAll(s, cap) ==
    IF ~strncmp_eq(s, XATTR_TRUSTED_PREFIX, XATTR_TRUSTED_PREFIX_LEN)
    THEN TRUE
    ELSE ~ovl_is_private_xattr(s)

ovl_can_list(s, cap) ==
    IF ~strncmp_eq(s, XATTR_TRUSTED_PREFIX, XATTR_TRUSTED_PREFIX_LEN)
    THEN TRUE
    ELSE ~ovl_is_private_xattr(s) /\ cap

\* strnlen(s, len) for the text that starts at index s of the buffer
RECURSIVE strnlen(_, _, _)
strnlen(list, s, len) ==
    IF len = 0 \/ list[s] = "NUL" THEN 0
    ELSE 1 + strnlen(list, s + 1, len - 1)

\* the NUL-terminated string at index s
StrAt(list, s) == SubSeq(list, s, s + strnlen(list, s, Len(list) - s + 1) - 1)

\* memmove(dst, src, n) inside the buffer
memmove(list, dst, src, n) ==
    [i \in 1..Len(list) |->
        IF i >= dst /\ i < dst + n THEN list[src + (i - dst)] ELSE list[i]]

\* the loop of ovl_listxattr: s is the cursor, len the bytes left, res the
\* length of the filtered list so far; -EIO for a list that is not
\* terminated
RECURSIVE FilterPrivate(_, _, _, _, _)
FilterPrivate(list, s, len, res, cap) ==
    IF len = 0 THEN [ret |-> res, list |-> list]
    ELSE
    LET slen == strnlen(list, s, len) + 1
    IN  IF slen > len THEN [ret |-> -EIO, list |-> list]
        ELSE IF ~ovl_can_list(StrAt(list, s), cap)
        THEN FilterPrivate(memmove(list, s, s + slen, len - slen),
                           s, len - slen, res - slen, cap)
        ELSE FilterPrivate(list, s + slen, len - slen, res, cap)

\* the buffer that vfs_listxattr fills for the names of the real inode
RECURSIVE ListBuffer(_)
ListBuffer(names) ==
    IF names = <<>> THEN <<>>
    ELSE Head(names) \o <<"NUL">> \o ListBuffer(Tail(names))

\* the names in the first n bytes of a buffer, as the caller reads them
RECURSIVE NamesIn(_, _)
NamesIn(list, n) ==
    IF n <= 0 THEN <<>>
    ELSE LET k == strnlen(list, 1, n)
         IN <<SubSeq(list, 1, k)>>
              \o NamesIn(SubSeq(list, k + 2, Len(list)), n - k - 1)

\* ovl_listxattr(dentry, list, size), given what vfs_listxattr returned
\* (res) and wrote (list): [ret, names]
ovl_listxattr(res, list, size, cap) ==
    IF res <= 0 \/ size = 0 THEN [ret |-> res, names |-> <<>>]
    ELSE LET f == FilterPrivate(list, 1, res, res, cap)
         IN [ret |-> f.ret,
             names |-> IF f.ret > 0 THEN NamesIn(f.list, f.ret) ELSE <<>>]

----------------------------------------------------------------------------
(* SpecList: ovl_listxattr over every short list of names.                 *)

\* how many xattrs the real inode carries at most
MaxXattrs == 3

\* trusted.overlay.n, trusted.k, trusted.overlayk, user.k, trustedk
XattrNames ==
    { OVL_XATTR_PREFIX \o <<"n">>,
      XATTR_TRUSTED_PREFIX \o <<"k">>,
      XATTR_TRUSTED_PREFIX \o <<"o", "v", "e", "r", "l", "a", "y", "k">>,
      <<"u", "s", "e", "r", ".", "k">>,
      <<"t", "r", "u", "s", "t", "e", "d", "k">> }

RECURSIVE NameLists(_)
NameLists(n) ==
    IF n = 0 THEN {<<>>}
    ELSE LET shorter == NameLists(n - 1)
         IN shorter \cup
            {Append(l, x) : l \in shorter,
                            x \in XattrNames}

Distinct(l) == \A i, j \in 1..Len(l) : i # j => l[i] # l[j]

ListInit ==
    /\ xnames \in {l \in NameLists(MaxXattrs) : Distinct(l)}
    /\ capable \in BOOLEAN
    /\ lres = NoList
    /\ StatIdle
    /\ AttrIdle
    /\ InodeIdle
    /\ HashIdle
    /\ PermIdle
    /\ i_nlink = 1
    /\ upper = NoDentry
    /\ lower = NoLower
    /\ fresh = "none"
    /\ dres = NoRes

\* vfs_listxattr fails: the error is returned as it is
ListxattrError ==
    /\ ~lres.called
    /\ \E size \in {0, Len(ListBuffer(xnames))} :
         lres' = [called |-> TRUE, size |-> size] @@
                 ovl_listxattr(-EIO, <<>>, size, capable)
    /\ UNCHANGED <<xnames, capable>>
    /\ UNCHANGED notList

\* vfs_listxattr succeeds; size 0 asks for the length only
Listxattr ==
    /\ ~lres.called
    /\ \E size \in {0, Len(ListBuffer(xnames))} :
         lres' = [called |-> TRUE, size |-> size] @@
                 ovl_listxattr(Len(ListBuffer(xnames)),
                               IF size = 0 THEN <<>> ELSE ListBuffer(xnames),
                               size, capable)
    /\ UNCHANGED <<xnames, capable>>
    /\ UNCHANGED notList

\* the filesystem below hands back a list whose last name is not terminated
ListxattrBroken ==
    /\ ~lres.called
    /\ xnames # <<>>
    /\ LET buf == ListBuffer(xnames)
           cut == SubSeq(buf, 1, Len(buf) - 1)
       IN lres' = [called |-> TRUE, size |-> Len(buf)] @@
                  ovl_listxattr(Len(cut), cut, Len(buf), capable)
    /\ UNCHANGED <<xnames, capable>>
    /\ UNCHANGED notList

ListxattrReturn ==
    /\ lres.called
    /\ lres' = NoList
    /\ UNCHANGED <<xnames, capable>>
    /\ UNCHANGED notList

ListNext ==
    \/ Listxattr
    \/ ListxattrError
    \/ ListxattrBroken
    \/ ListxattrReturn

SpecList == ListInit /\ [][ListNext]_vars

----------------------------------------------------------------------------
(* ovl_getattr: stat of an overlay dentry.                                 *)

\* the inodes of the lower layer: a file with one link, a file with two
\* links and a directory
LowerInodes ==
    [L1 |-> [ino |-> 11, nlink |-> 1, is_dir |-> FALSE],
     L2 |-> [ino |-> 12, nlink |-> 2, is_dir |-> FALSE],
     L3 |-> [ino |-> 13, nlink |-> 2, is_dir |-> TRUE]]

LowerNames == {"L1", "L2", "L3"}

\* the upper inode of a dentry, once it has one: an inode of its own
UpperIno(d) == IF d = "d1" THEN 21 ELSE 22

\* inode->i_ino and inode->i_nlink of the overlay inode of a dentry
OvlIno(d) == IF d = "d1" THEN 31 ELSE 32
OvlNlink(de) ==
    IF de.is_dir THEN 1
    ELSE IF de.lower # "none" THEN LowerInodes[de.lower].nlink ELSE 1

\* st_dev of the filesystems below and of the overlay (sb->s_dev)
LowerDev == "lowerfs"
UpperDev == IF same_sb THEN "lowerfs" ELSE "upperfs"
OvlDev == "overlay"

\* vfs_getattr on the lower and on the upper inode of a dentry
LowerStat(de) ==
    [dev |-> LowerDev, ino |-> LowerInodes[de.lower].ino,
     nlink |-> LowerInodes[de.lower].nlink]

UpperStat(d, de) ==
    [dev |-> UpperDev, ino |-> UpperIno(d),
     nlink |-> IF de.is_dir THEN 2 ELSE 1]

\* ovl_path_type: origin and merge bits of the dentry (one lower layer, so
\* a dentry without an upper dentry is never a merge)
OVL_TYPE_ORIGIN(de) == de.has_upper /\ de.lower # "none"
OVL_TYPE_MERGE(de) == de.has_upper /\ de.lower # "none" /\ de.is_dir

\* the test that picks the st_ino of the copy up origin
UseOriginIno_noNlinkTest(is_dir, lowerstat_nlink, indexed) ==
    is_dir \/ indexed

UseOriginIno(is_dir, lowerstat_nlink, indexed) ==
    is_dir \/ lowerstat_nlink = 1 \/ indexed

StatErr(e) == [called |-> TRUE, err |-> e, dev |-> "none", ino |-> 0,
               nlink |-> 0]
StatOk(st) == [called |-> TRUE, err |-> 0, dev |-> st.dev, ino |-> st.ino,
               nlink |-> st.nlink]

\* the part of ovl_getattr after the first vfs_getattr succeeded with st;
\* fail_lower: the vfs_getattr of the lower path fails
ovl_getattr_fixup(d, de, st, fail_lower) ==
    LET same == same_sb
        origin == same /\ OVL_TYPE_ORIGIN(de)
        ino1 == IF origin /\ UseOriginIno(de.is_dir, LowerStat(de).nlink,
                                          de.index)
                THEN LowerStat(de).ino
                ELSE IF ~same /\ de.is_dir THEN OvlIno(d)
                ELSE st.ino
        dev1 == IF same \/ de.is_dir THEN OvlDev ELSE st.dev
        nlink1 == IF de.is_dir /\ OVL_TYPE_MERGE(de) THEN 1 ELSE st.nlink
        nlink2 == IF ~de.is_dir /\ de.index THEN OvlNlink(de) ELSE nlink1
    IN  IF origin /\ fail_lower THEN StatErr(-EIO)
        ELSE StatOk([dev |-> dev1, ino |-> ino1, nlink |-> nlink2])

\* ovl_getattr(path, stat, request_mask, flags);
\* fail_real: the first vfs_getattr fails
ovl_getattr(d, de, fail_real, fail_lower) ==
    IF ksu_susfs /\ de.lower # "none"
    THEN \* ovl_path_lowerdata found a lower path: its stat is the answer
         IF fail_real THEN StatErr(-EIO) ELSE StatOk(LowerStat(de))
    ELSE IF fail_real THEN StatErr(-EIO)
    ELSE ovl_getattr_fixup(d, de,
            IF de.has_upper THEN UpperStat(d, de) ELSE LowerStat(de),
            fail_lower)

----------------------------------------------------------------------------
(* SpecStat: two overlay dentries are stat'ed before and after copy up.    *)

DentryStates ==
    {de \in [lower : LowerNames \cup {"none"}, has_upper : BOOLEAN,
             is_dir : BOOLEAN, index : BOOLEAN] :
        /\ (de.lower = "none" => de.has_upper)
        /\ (de.lower # "none" => de.is_dir = LowerInodes[de.lower].is_dir)
        /\ (de.index => de.has_upper)}

StatInit ==
    /\ same_sb \in BOOLEAN
    /\ ksu_susfs \in BOOLEAN
    /\ dent \in [Dentries -> DentryStates]
    /\ kstat = [d \in Dentries |-> [pre |-> NoStat, post |-> NoStat]]
    /\ ListIdle
    /\ AttrIdle
    /\ InodeIdle
    /\ HashIdle
    /\ PermIdle
    /\ i_nlink = 1
    /\ upper = NoDentry
    /\ lower = NoLower
    /\ fresh = "none"
    /\ dres = NoRes

GetAttr(d) ==
    /\ \E fail_real, fail_lower \in BOOLEAN :
         LET r == ovl_getattr(d, dent[d], fail_real, fail_lower)
         IN kstat' = [kstat EXCEPT ![d] =
                IF dent[d].has_upper THEN [@ EXCEPT !.post = r]
                ELSE [@ EXCEPT !.pre = r]]
    /\ UNCHANGED <<same_sb, ksu_susfs, dent>>
    /\ UNCHANGED notStat

\* ovl_copy_up gives the dentry an upper inode; with an index the overlay
\* inode is flagged OVL_INDEX
CopyUp(d) ==
    /\ ~dent[d].has_upper
    /\ \E indexed \in BOOLEAN :
         dent' = [dent EXCEPT ![d].has_upper = TRUE, ![d].index = indexed]
    /\ UNCHANGED <<same_sb, ksu_susfs, kstat>>
    /\ UNCHANGED notStat

StatNext ==
    \/ \E d \in Dentries : GetAttr(d)
    \/ \E d \in Dentries : CopyUp(d)

SpecStat == StatInit /\ [][StatNext]_vars

----------------------------------------------------------------------------
(* SpecAttr: ovl_setattr, ovl_xattr_set and ovl_open_maybe_copy_up run by   *)
(* two tasks on one overlay dentry, one statement at a time.               *)

AttrInit ==
    /\ a_upper \in BOOLEAN
    /\ a_alias \in BOOLEAN
    /\ (a_alias => a_upper)
    /\ a_special \in BOOLEAN
    /\ lower_xattr \in BOOLEAN
    /\ writers = 0
    /\ i_rwsem = "none"
    /\ promoted_by = "none"
    /\ ovl_attr = "fresh"
    /\ pseen = FALSE
    /\ call = [t \in Tasks |-> IdleCall]
    /\ ListIdle
    /\ StatIdle
    /\ InodeIdle
    /\ HashIdle
    /\ PermIdle
    /\ i_nlink = 1
    /\ upper = NoDentry
    /\ lower = NoLower
    /\ fresh = "none"
    /\ dres = NoRes

\* the task moves to statement pc with err set
Step(t, pc, err) ==
    call' = [call EXCEPT ![t].pc = pc, ![t].err = err]

\* ovl_want_write(dentry): the write access is granted and counted, or
\* refused (the mount is read-only or frozen)
WantWrite(t, next, out) ==
    \/ /\ writers' = writers + 1
       /\ call' = [call EXCEPT ![t].pc = next, ![t].err = 0,
                               ![t].acq = @ + 1]
    \/ /\ writers' = writers
       /\ call' = [call EXCEPT ![t].pc = out, ![t].err = -EROFS,
                               ![t].wfail = TRUE]

\* ovl_drop_write(dentry)
DropWrite(t, next) ==
    /\ writers' = writers - 1
    /\ call' = [call EXCEPT ![t].pc = next, ![t].rel = @ + 1]

\* ovl_copy_up(dentry) / ovl_copy_up_flags(dentry, flags): on success the
\* dentry has an upper dentry (it is left alone when it has one already)
CopyUpCall(t, next, fail) ==
    \/ /\ a_upper' = TRUE
       /\ a_alias' = TRUE
       /\ promoted_by' = IF a_upper THEN promoted_by ELSE t
       /\ call' = [call EXCEPT ![t].pc = next, ![t].err = 0,
                               ![t].cup = @ + 1]
    \/ /\ ~(a_upper /\ a_alias)
       /\ UNCHANGED <<a_upper, a_alias, promoted_by>>
       /\ call' = [call EXCEPT ![t].pc = fail, ![t].err = -ENOSPC,
                               ![t].cup = @ + 1]

\* ---- ovl_setattr ----

\* the bits of attr->ia_valid that the model tells apart
AttrFlags == {"ATTR_MODE", "ATTR_KILL_SUID", "ATTR_KILL_SGID"}

\* if (attr->ia_valid & (ATTR_KILL_SUID|ATTR_KILL_SGID))
\*         attr->ia_valid &= ~ATTR_MODE;
KillSuidMask_keepMode(ia_valid) == ia_valid

KillSuidMask(ia_valid) ==
    IF ia_valid \cap {"ATTR_KILL_SUID", "ATTR_KILL_SGID"} # {}
    THEN ia_valid \ {"ATTR_MODE"}
    ELSE ia_valid

\* if (err) return err; after setattr_prepare
SetattrAfterPrepare_unchecked(err) == "want_write"

SetattrAfterPrepare(err) == IF err # 0 THEN "done" ELSE "want_write"

\* the call and err = setattr_prepare(dentry, attr)
SetattrPrepare(t) ==
    /\ call[t].pc = "idle"
    /\ \E err \in {0, -EPERM}, valid \in SUBSET AttrFlags :
         call' = [call EXCEPT ![t] =
                    [IdleCall EXCEPT !.op = "setattr",
                                     !.pc = SetattrAfterPrepare(err),
                                     !.err = err, !.prep = err,
                                     !.entry_upper = a_upper,
                                     !.entry_alias = a_alias,
                                     !.ia_valid = valid,
                                     !.req = valid]]
    /\ UNCHANGED <<a_upper, a_alias, a_special, lower_xattr, writers,
                   i_rwsem, promoted_by>>
    /\ UNCHANGED <<ovl_attr, pseen>>
    /\ UNCHANGED notAttr

\* err = ovl_want_write(dentry); if (err) goto out;
SetattrWantWrite(t) ==
    /\ call[t].op = "setattr"
    /\ call[t].pc = "want_write"
    /\ WantWrite(t, "copy_up", "done")
    /\ UNCHANGED <<a_upper, a_alias, a_special, lower_xattr, i_rwsem,
                   promoted_by>>
    /\ UNCHANGED <<ovl_attr, pseen>>
    /\ UNCHANGED notAttr

\* err = ovl_copy_up(dentry); if (!err) { ... } ovl_drop_write(dentry);
SetattrCopyUp(t) ==
    /\ call[t].op = "setattr"
    /\ call[t].pc = "copy_up"
    /\ CopyUpCall(t, "inode_lock", "drop_write")
    /\ UNCHANGED <<a_special, lower_xattr, writers, i_rwsem>>
    /\ UNCHANGED <<ovl_attr, pseen>>
    /\ UNCHANGED notAttr

\* inode_lock(upperdentry->d_inode) returns once no task holds the lock
InodeLockAvailable_ignored == TRUE

InodeLockAvailable == i_rwsem = "none"

\* upperdentry = ovl_dentry_upper(dentry); the ATTR_MODE bit is dropped for
\* a kill of suid or sgid; inode_lock(upperdentry->d_inode)
SetattrLock(t) ==
    /\ call[t].op = "setattr"
    /\ call[t].pc = "inode_lock"
    /\ InodeLockAvailable
    /\ i_rwsem' = t
    /\ call' = [call EXCEPT ![t].pc = "notify_change",
                            ![t].ia_valid = KillSuidMask(@)]
    /\ UNCHANGED <<a_upper, a_alias, a_special, lower_xattr, writers,
                   promoted_by>>
    /\ UNCHANGED <<ovl_attr, pseen>>
    /\ UNCHANGED notAttr

\* err = notify_change(upperdentry, attr, NULL) under the mounter's creds:
\* on success the upper inode has the new attributes and the overlay inode
\* still the old ones; if (!err) goes on to ovl_copyattr
SetattrNotifyChange(t) ==
    /\ call[t].op = "setattr"
    /\ call[t].pc = "notify_change"
    /\ \E err \in {0, -EACCES} :
         /\ call' = [call EXCEPT
                        ![t].pc = IF err = 0 THEN "copyattr"
                                  ELSE "inode_unlock",
                        ![t].err = err,
                        ![t].notified = TRUE,
                        ![t].applied = call[t].ia_valid]
         /\ ovl_attr' = IF err = 0 THEN "stale" ELSE ovl_attr
    /\ UNCHANGED <<a_upper, a_alias, a_special, lower_xattr, writers,
                   i_rwsem, promoted_by>>
    /\ UNCHANGED pseen
    /\ UNCHANGED notAttr

\* ovl_copyattr(upperdentry->d_inode, dentry->d_inode): the overlay inode
\* gets the attributes of the upper inode
SetattrCopyAttr(t) ==
    /\ call[t].op = "setattr"
    /\ call[t].pc = "copyattr"
    /\ ovl_attr' = "fresh"
    /\ Step(t, "inode_unlock", call[t].err)
    /\ UNCHANGED <<a_upper, a_alias, a_special, lower_xattr, writers,
                   i_rwsem, promoted_by>>
    /\ UNCHANGED pseen
    /\ UNCHANGED notAttr

\* inode_unlock(upperdentry->d_inode)
SetattrUnlock(t) ==
    /\ call[t].op = "setattr"
    /\ call[t].pc = "inode_unlock"
    /\ i_rwsem' = "none"
    /\ Step(t, "drop_write", call[t].err)
    /\ UNCHANGED <<a_upper, a_alias, a_special, lower_xattr, writers,
                   promoted_by>>
    /\ UNCHANGED <<ovl_attr, pseen>>
    /\ UNCHANGED notAttr

\* ovl_drop_write(dentry); out: return err;
SetattrDropWrite(t) ==
    /\ call[t].op = "setattr"
    /\ call[t].pc = "drop_write"
    /\ DropWrite(t, "done")
    /\ UNCHANGED <<a_upper, a_alias, a_special, lower_xattr, i_rwsem,
                   promoted_by>>
    /\ UNCHANGED <<ovl_attr, pseen>>
    /\ UNCHANGED notAttr

\* ---- ovl_xattr_set ----

\* the label taken when vfs_getxattr on the lower dentry fails
XattrCheckFailLabel_out == "done"

XattrCheckFailLabel == "drop_write"

\* the statement after a successful ovl_want_write
XattrAfterWantWrite_noCheck(c) ==
    IF ~c.upperdentry THEN "copy_up" ELSE "apply"

XattrAfterWantWrite(c) ==
    IF ~c.value /\ ~c.upperdentry THEN "getxattr"
    ELSE IF ~c.upperdentry THEN "copy_up"
    ELSE "apply"

\* the call: upperdentry = ovl_i_dentry_upper(inode)
XattrSetCall(t) ==
    /\ call[t].pc = "idle"
    /\ \E value \in BOOLEAN :
         call' = [call EXCEPT ![t] =
                    [IdleCall EXCEPT !.op = "xattr_set",
                                     !.pc = "want_write",
                                     !.upperdentry = a_upper,
                                     !.value = value,
                                     !.entry_upper = a_upper,
                                     !.entry_alias = a_alias]]
    /\ UNCHANGED <<a_upper, a_alias, a_special, lower_xattr, writers,
                   i_rwsem, promoted_by>>
    /\ UNCHANGED <<ovl_attr, pseen>>
    /\ UNCHANGED notAttr

\* err = ovl_want_write(dentry); if (err) goto out;
XattrWantWrite(t) ==
    /\ call[t].op = "xattr_set"
    /\ call[t].pc = "want_write"
    /\ WantWrite(t, XattrAfterWantWrite(call[t]), "done")
    /\ UNCHANGED <<a_upper, a_alias, a_special, lower_xattr, i_rwsem,
                   promoted_by>>
    /\ UNCHANGED <<ovl_attr, pseen>>
    /\ UNCHANGED notAttr

\* if (!value && !upperdentry) { err = vfs_getxattr(realdentry, name, NULL,
\* 0); if (err < 0) goto out_drop_write; }
XattrGetxattr(t) ==
    /\ call[t].op = "xattr_set"
    /\ call[t].pc = "getxattr"
    /\ IF lower_xattr THEN Step(t, "copy_up", 1)
       ELSE Step(t, XattrCheckFailLabel, -ENODATA)
    /\ UNCHANGED <<a_upper, a_alias, a_special, lower_xattr, writers,
                   i_rwsem, promoted_by>>
    /\ UNCHANGED <<ovl_attr, pseen>>
    /\ UNCHANGED notAttr

\* if (!upperdentry) { err = ovl_copy_up(dentry); if (err) goto
\* out_drop_write; realdentry = ovl_dentry_upper(dentry); }
XattrCopyUp(t) ==
    /\ call[t].op = "xattr_set"
    /\ call[t].pc = "copy_up"
    /\ CopyUpCall(t, "apply", "drop_write")
    /\ UNCHANGED <<a_special, lower_xattr, writers, i_rwsem>>
    /\ UNCHANGED <<ovl_attr, pseen>>
    /\ UNCHANGED notAttr

\* vfs_setxattr and vfs_removexattr take the lock of the inode they change
\* for the time of the change, and so wait for a holder of it
VfsXattrLock == i_rwsem = "none"

\* vfs_setxattr or vfs_removexattr on realdentry under the mounter's creds
XattrApply(t) ==
    /\ call[t].op = "xattr_set"
    /\ call[t].pc = "apply"
    /\ VfsXattrLock
    /\ \E err \in {0, -EACCES} : Step(t, "drop_write", err)
    /\ UNCHANGED <<a_upper, a_alias, a_special, lower_xattr, writers,
                   i_rwsem, promoted_by>>
    /\ UNCHANGED <<ovl_attr, pseen>>
    /\ UNCHANGED notAttr

\* out_drop_write: ovl_drop_write(dentry); out: return err;
XattrDropWrite(t) ==
    /\ call[t].op = "xattr_set"
    /\ call[t].pc = "drop_write"
    /\ DropWrite(t, "done")
    /\ UNCHANGED <<a_upper, a_alias, a_special, lower_xattr, i_rwsem,
                   promoted_by>>
    /\ UNCHANGED <<ovl_attr, pseen>>
    /\ UNCHANGED notAttr

\* ---- ovl_open_maybe_copy_up ----

\* wr: OPEN_FMODE(flags) & FMODE_WRITE, or flags & O_TRUNC
ovl_open_need_copy_up_noSpecialTest(wr) ==
    IF a_upper /\ a_alias THEN FALSE
    ELSE IF ~wr THEN FALSE
    ELSE TRUE

ovl_open_need_copy_up(wr) ==
    IF a_upper /\ a_alias THEN FALSE
    ELSE IF a_special THEN FALSE
    ELSE IF ~wr THEN FALSE
    ELSE TRUE

\* the call and if (ovl_open_need_copy_up(dentry, file_flags))
OpenCall(t) ==
    /\ call[t].pc = "idle"
    /\ \E wr \in BOOLEAN :
         call' = [call EXCEPT ![t] =
                    [IdleCall EXCEPT
                        !.op = "open",
                        !.pc = IF ovl_open_need_copy_up(wr)
                               THEN "want_write" ELSE "done",
                        !.wr = wr,
                        !.entry_upper = a_upper,
                        !.entry_alias = a_alias]]
    /\ UNCHANGED <<a_upper, a_alias, a_special, lower_xattr, writers,
                   i_rwsem, promoted_by>>
    /\ UNCHANGED <<ovl_attr, pseen>>
    /\ UNCHANGED notAttr

\* err = ovl_want_write(dentry); if (!err) { ... }
OpenWantWrite(t) ==
    /\ call[t].op = "open"
    /\ call[t].pc = "want_write"
    /\ WantWrite(t, "copy_up", "done")
    /\ UNCHANGED <<a_upper, a_alias, a_special, lower_xattr, i_rwsem,
                   promoted_by>>
    /\ UNCHANGED <<ovl_attr, pseen>>
    /\ UNCHANGED notAttr

\* err = ovl_copy_up_flags(dentry, file_flags);
OpenCopyUp(t) ==
    /\ call[t].op = "open"
    /\ call[t].pc = "copy_up"
    /\ CopyUpCall(t, "drop_write", "drop_write")
    /\ UNCHANGED <<a_special, lower_xattr, writers, i_rwsem>>
    /\ UNCHANGED <<ovl_attr, pseen>>
    /\ UNCHANGED notAttr

\* ovl_drop_write(dentry); return err;
OpenDropWrite(t) ==
    /\ call[t].op = "open"
    /\ call[t].pc = "drop_write"
    /\ DropWrite(t, "done")
    /\ UNCHANGED <<a_upper, a_alias, a_special, lower_xattr, i_rwsem,
                   promoted_by>>
    /\ UNCHANGED <<ovl_attr, pseen>>
    /\ UNCHANGED notAttr

\* ---- ovl_permission on the same inode, by another task ----

\* generic_permission(inode, mask) reads the attributes of the overlay
\* inode and inode_permission(realinode, mask) those of the real inode; no
\* lock is taken
AttrPermission ==
    /\ pseen' = (pseen \/ ovl_attr = "stale")
    /\ UNCHANGED <<a_upper, a_alias, a_special, lower_xattr, writers,
                   i_rwsem, promoted_by, ovl_attr, call>>
    /\ UNCHANGED notAttr

\* the operation has returned err; the task is free for the next call
AttrReturn(t) ==
    /\ call[t].pc = "done"
    /\ call' = [call EXCEPT ![t] = IdleCall]
    /\ UNCHANGED <<a_upper, a_alias, a_special, lower_xattr, writers,
                   i_rwsem, promoted_by>>
    /\ UNCHANGED <<ovl_attr, pseen>>
    /\ UNCHANGED notAttr

AttrNext ==
    \/ AttrPermission
    \/ \E t \in Tasks :
        \/ SetattrPrepare(t)
        \/ SetattrWantWrite(t)
        \/ SetattrCopyUp(t)
        \/ SetattrLock(t)
        \/ SetattrNotifyChange(t)
        \/ SetattrCopyAttr(t)
        \/ SetattrUnlock(t)
        \/ SetattrDropWrite(t)
        \/ XattrSetCall(t)
        \/ XattrWantWrite(t)
        \/ XattrGetxattr(t)
        \/ XattrCopyUp(t)
        \/ XattrApply(t)
        \/ XattrDropWrite(t)
        \/ OpenCall(t)
        \/ OpenWantWrite(t)
        \/ OpenCopyUp(t)
        \/ OpenDropWrite(t)
        \/ AttrReturn(t)

SpecAttr == AttrInit /\ [][AttrNext]_vars

----------------------------------------------------------------------------
(* ovl_get_inode: the overlay inode for an upper and a lower dentry.       *)

\* the inodes of the upper layer: a file, a file with two links that
\* carries an nlink record, and a directory
UpperInodes ==
    [U1 |-> [nlink |-> 1, is_dir |-> FALSE, xattr |-> NoXattr],
     U2 |-> [nlink |-> 2, is_dir |-> FALSE,
             xattr |-> Xattr(<<"L", "+", "1">>)],
     U3 |-> [nlink |-> 2, is_dir |-> TRUE, xattr |-> NoXattr]]

UpperNames == {"U1", "U2", "U3"}

\* the dentries as ovl_get_nlink takes them
UpperDentry(u) ==
    IF u = "none" THEN NoDentry
    ELSE [present |-> TRUE, i_nlink |-> UpperInodes[u].nlink,
          xattr |-> UpperInodes[u].xattr]

LowerDentry(l) ==
    IF l = "none" THEN NoLower
    ELSE [present |-> TRUE, i_nlink |-> LowerInodes[l].nlink]

\* ovl_inode_test(inode, data)
ovl_inode_test_never(inode, data) == FALSE

ovl_inode_test(inode, data) == inode.i_private = data

\* ovl_verify_inode(inode, lowerdentry, upperdentry)
ovl_verify_inode_lowerOnly(inode, lowerdentry, upperdentry) ==
    ~(lowerdentry # "none" /\ inode.lower # lowerdentry)

ovl_verify_inode_exact(inode, lowerdentry, upperdentry) ==
    inode.lower = lowerdentry /\ inode.upper = upperdentry

ovl_verify_inode(inode, lowerdentry, upperdentry) ==
    IF inode.is_dir /\ lowerdentry = "none" /\ inode.lower # "none"
    THEN FALSE
    ELSE IF inode.is_dir /\ upperdentry = "none" /\ inode.upper # "none"
    THEN FALSE
    ELSE IF lowerdentry # "none" /\ inode.lower # lowerdentry THEN FALSE
    ELSE IF upperdentry # "none" /\ inode.upper # upperdentry THEN FALSE
    ELSE TRUE

\* ovl_hash_bylower(sb, upper, lower, index)
ovl_hash_bylower_exportFirst(fs, up, low, index) ==
    IF low = "none" THEN FALSE
    ELSE IF fs.export_op /\ up # "none" THEN FALSE
    ELSE IF index THEN TRUE
    ELSE IF ~fs.upper_mnt THEN TRUE
    ELSE IF (up # "none" \/ ~fs.indexdir)
            /\ ~LowerInodes[low].is_dir /\ LowerInodes[low].nlink > 1
    THEN FALSE
    ELSE TRUE

ovl_hash_bylower_noHardlinkRule(fs, up, low, index) ==
    IF low = "none" THEN FALSE
    ELSE IF index THEN TRUE
    ELSE IF ~fs.upper_mnt THEN TRUE
    ELSE IF fs.export_op /\ up # "none" THEN FALSE
    ELSE TRUE

ovl_hash_bylower(fs, up, low, index) ==
    IF low = "none" THEN FALSE
    ELSE IF index THEN TRUE
    ELSE IF ~fs.upper_mnt THEN TRUE
    ELSE IF (up # "none" \/ ~fs.indexdir)
            /\ ~LowerInodes[low].is_dir /\ LowerInodes[low].nlink > 1
    THEN FALSE
    ELSE IF fs.export_op /\ up # "none" THEN FALSE
    ELSE TRUE

\* realinode: the upper inode if there is one, else the lower inode
RealIsDir(up, low) ==
    IF up # "none" THEN UpperInodes[up].is_dir ELSE LowerInodes[low].is_dir

RealNlink(up, low) ==
    IF up # "none" THEN UpperInodes[up].nlink ELSE LowerInodes[low].nlink

\* the key of iget5_locked: d_inode(bylower ? lowerdentry : upperdentry)
HashKey(c) == IF c.bylower THEN c.lowerdentry ELSE c.upperdentry

\* the link count set on a new hashed inode
NewNlink_noDecode(up, low) ==
    IF RealIsDir(up, low) THEN 1 ELSE RealNlink(up, low)

NewNlink(up, low) ==
    IF RealIsDir(up, low) THEN 1
    ELSE ovl_get_nlink(LowerDentry(low), UpperDentry(up),
                       RealNlink(up, low)).ret

----------------------------------------------------------------------------
(* SpecInode: tasks call ovl_get_inode concurrently and drop the inodes    *)
(* they got.                                                               *)

\* the arguments ovl_lookup can pass: at least one dentry, of one kind, an
\* upper dentry only with an upper layer, an index only with an index dir
Requests ==
    {r \in [upperdentry : UpperNames \cup {"none"},
            lowerdentry : LowerNames \cup {"none"},
            index : BOOLEAN] :
        /\ (r.upperdentry # "none" \/ r.lowerdentry # "none")
        /\ ((r.upperdentry # "none" /\ r.lowerdentry # "none") =>
              UpperInodes[r.upperdentry].is_dir
                = LowerInodes[r.lowerdentry].is_dir)
        /\ (r.upperdentry # "none" => ofs.upper_mnt)
        /\ (r.index => r.lowerdentry # "none" /\ ofs.indexdir)}

InodeInit ==
    /\ ofs \in {f \in [upper_mnt : BOOLEAN, indexdir : BOOLEAN,
                       export_op : BOOLEAN] : f.indexdir => f.upper_mnt}
    /\ inodes = [i \in Slots |-> FreeInode]
    /\ lookup = [t \in Tasks |-> IdleLookup]
    /\ ListIdle
    /\ StatIdle
    /\ AttrIdle
    /\ HashIdle
    /\ PermIdle
    /\ i_nlink = 1
    /\ upper = NoDentry
    /\ lower = NoLower
    /\ fresh = "none"
    /\ dres = NoRes

\* the entry of ovl_get_inode up to if (upperdentry || bylower)
GetInodeCall(t) ==
    /\ lookup[t].pc = "idle"
    /\ \E r \in Requests :
         LET by == ovl_hash_bylower(ofs, r.upperdentry, r.lowerdentry,
                                    r.index)
         IN lookup' = [lookup EXCEPT ![t] =
                [IdleLookup EXCEPT
                    !.pc = IF r.upperdentry # "none" \/ by
                           THEN "iget5_locked" ELSE "new_inode",
                    !.upperdentry = r.upperdentry,
                    !.lowerdentry = r.lowerdentry,
                    !.index = r.index,
                    !.bylower = by]]
    /\ UNCHANGED <<ofs, inodes>>
    /\ UNCHANGED notInode

\* the hashed inodes that ovl_inode_test accepts for the key
Matching(key) ==
    {i \in Slots : inodes[i].hashed /\ ovl_inode_test(inodes[i], key)}

\* iput(inode): the last reference evicts the inode
Iput(i) ==
    IF inodes[i].i_count = 1 THEN [inodes EXCEPT ![i] = FreeInode]
    ELSE [inodes EXCEPT ![i].i_count = @ - 1]

\* iget5_locked finds the inode in the hash (it waits while I_NEW is set
\* and takes a reference); then if (!(inode->i_state & I_NEW)) { ... }
Iget5Found(t) ==
    /\ lookup[t].pc = "iget5_locked"
    /\ \E i \in Matching(HashKey(lookup[t])) :
         /\ inodes[i].state = "live"
         /\ IF ovl_verify_inode(inodes[i], lookup[t].lowerdentry,
                                lookup[t].upperdentry)
            THEN /\ inodes' = [inodes EXCEPT ![i].i_count = @ + 1]
                 /\ lookup' = [lookup EXCEPT ![t].pc = "done",
                                             ![t].inode = i, ![t].ret = i,
                                             ![t].found = i]
            ELSE \* the reference taken is put again: iput(inode)
                 /\ inodes' = inodes
                 /\ lookup' = [lookup EXCEPT ![t].pc = "done",
                                             ![t].ret = -ESTALE,
                                             ![t].found = i]
    /\ UNCHANGED ofs
    /\ UNCHANGED notInode

\* the slot of the next inode allocated: the first free one
FreeSlot(i) ==
    /\ inodes[i].state = "free"
    /\ \A j \in Slots : j < i => inodes[j].state # "free"

\* iget5_locked finds no inode and inserts a new one with I_NEW set and
\* i_private = key (ovl_inode_set)
Iget5New(t) ==
    /\ lookup[t].pc = "iget5_locked"
    /\ Matching(HashKey(lookup[t])) = {}
    /\ \E i \in Slots :
         /\ FreeSlot(i)
         /\ inodes' = [inodes EXCEPT ![i] =
                [FreeInode EXCEPT !.state = "new", !.hashed = TRUE,
                                  !.i_private = HashKey(lookup[t]),
                                  !.i_count = 1]]
         /\ lookup' = [lookup EXCEPT ![t].pc = "fill", ![t].inode = i]
    /\ UNCHANGED ofs
    /\ UNCHANGED notInode

\* inode = new_inode(sb): an inode that is not hashed
NewInode(t) ==
    /\ lookup[t].pc = "new_inode"
    /\ \E i \in Slots :
         /\ FreeSlot(i)
         /\ inodes' = [inodes EXCEPT ![i] =
                [FreeInode EXCEPT !.state = "new", !.i_nlink = 1,
                                  !.i_count = 1]]
         /\ lookup' = [lookup EXCEPT ![t].pc = "fill", ![t].inode = i]
    /\ UNCHANGED ofs
    /\ UNCHANGED notInode

\* iget5_locked or new_inode returns NULL: goto out_nomem
GetInodeNomem(t) ==
    /\ lookup[t].pc \in {"iget5_locked", "new_inode"}
    /\ (lookup[t].pc = "iget5_locked" =>
          Matching(HashKey(lookup[t])) = {})
    /\ lookup' = [lookup EXCEPT ![t].pc = "done", ![t].ret = -ENOMEM]
    /\ UNCHANGED <<ofs, inodes>>
    /\ UNCHANGED notInode

\* set_nlink for a hashed inode, ovl_fill_inode, ovl_inode_init and
\* unlock_new_inode
FillInode(t) ==
    /\ lookup[t].pc = "fill"
    /\ LET i == lookup[t].inode
           up == lookup[t].upperdentry
           low == lookup[t].lowerdentry
       IN /\ inodes' = [inodes EXCEPT
                 ![i].state = "live",
                 ![i].i_nlink = IF inodes[i].hashed THEN NewNlink(up, low)
                                ELSE @,
                 ![i].is_dir = RealIsDir(up, low),
                 ![i].upper = up,
                 ![i].lower = low]
          /\ lookup' = [lookup EXCEPT ![t].pc = "done", ![t].ret = i]
    /\ UNCHANGED ofs
    /\ UNCHANGED notInode

\* the caller is done with what it got: iput on an inode, nothing on an
\* error
PutInode(t) ==
    /\ lookup[t].pc = "done"
    /\ inodes' = IF lookup[t].ret > 0 THEN Iput(lookup[t].ret) ELSE inodes
    /\ lookup' = [lookup EXCEPT ![t] = IdleLookup]
    /\ UNCHANGED ofs
    /\ UNCHANGED notInode

InodeNext ==
    \E t \in Tasks :
        \/ GetInodeCall(t)
        \/ Iget5Found(t)
        \/ Iget5New(t)
        \/ NewInode(t)
        \/ GetInodeNomem(t)
        \/ FillInode(t)
        \/ PutInode(t)

SpecInode == InodeInit /\ [][InodeNext]_vars

----------------------------------------------------------------------------
(* ovl_permission: the check on the overlay inode with the caller's creds  *)
(* and on the real inode with the mounter's.                               *)

\* the bits of mask
MayFlags == {"MAY_EXEC", "MAY_WRITE", "MAY_READ", "MAY_APPEND",
             "MAY_NOT_BLOCK"}

\* realinode = upperinode ?: ovl_inode_lower(inode)
PermRealInode(node) ==
    IF node.upper THEN "upper" ELSE IF node.lower THEN "lower" ELSE "none"

\* what is returned without a real inode
PermNoRealErr_eacces == -EACCES

PermNoRealErr == -ECHILD

\* the mask of inode_permission(realinode, mask): without an upper inode a
\* write to a file that is not special is checked as a read
DelegatedMask_keepAppend(upperinode, special, mask) ==
    IF ~upperinode /\ ~special /\ "MAY_WRITE" \in mask
    THEN (mask \ {"MAY_WRITE"}) \cup {"MAY_READ"}
    ELSE mask

DelegatedMask(upperinode, special, mask) ==
    IF ~upperinode /\ ~special /\ "MAY_WRITE" \in mask
    THEN (mask \ {"MAY_WRITE", "MAY_APPEND"}) \cup {"MAY_READ"}
    ELSE mask

\* ovl_permission(inode, mask); gen and real are what generic_permission
\* and inode_permission return when they are called
ovl_permission(node, mask, gen, real) ==
    IF PermRealInode(node) = "none"
    THEN [NoPerm EXCEPT !.called = TRUE, !.mask = mask,
                        !.warned = "MAY_NOT_BLOCK" \notin mask,
                        !.ret = PermNoRealErr]
    ELSE IF gen # 0
    THEN [NoPerm EXCEPT !.called = TRUE, !.mask = mask, !.generic = TRUE,
                        !.ret = gen]
    ELSE [NoPerm EXCEPT !.called = TRUE, !.mask = mask, !.generic = TRUE,
                        !.real = TRUE,
                        !.realinode = PermRealInode(node),
                        !.realmask = DelegatedMask(node.upper, node.special,
                                                   mask),
                        !.ret = real]

----------------------------------------------------------------------------
(* SpecPerm: ovl_permission on an overlay inode in every state of its      *)
(* upper and lower inode, with every mask.                                 *)

PermInit ==
    /\ pnode \in [upper : BOOLEAN, lower : BOOLEAN, special : BOOLEAN]
    /\ pres = NoPerm
    /\ ListIdle
    /\ StatIdle
    /\ AttrIdle
    /\ InodeIdle
    /\ HashIdle
    /\ i_nlink = 1
    /\ upper = NoDentry
    /\ lower = NoLower
    /\ fresh = "none"
    /\ dres = NoRes

\* a call of ovl_permission
Permission ==
    /\ \E mask \in SUBSET MayFlags, gen \in {0, -EACCES},
          real \in {0, -EACCES} :
         pres' = ovl_permission(pnode, mask, gen, real)
    /\ UNCHANGED pnode
    /\ UNCHANGED notPerm

PermNext == Permission

SpecPerm == PermInit /\ [][PermNext]_vars

----------------------------------------------------------------------------
(* SpecHash: ovl_hash_bylower over every combination of its arguments and  *)
(* of the mount's configuration.                                           *)

HashInit ==
    /\ hres = NoHash
    /\ ListIdle
    /\ StatIdle
    /\ AttrIdle
    /\ InodeIdle
    /\ PermIdle
    /\ i_nlink = 1
    /\ upper = NoDentry
    /\ lower = NoLower
    /\ fresh = "none"
    /\ dres = NoRes

\* a call of ovl_hash_bylower(sb, upper, lower, index)
HashByLower ==
    /\ \E fs \in [upper_mnt : BOOLEAN, indexdir : BOOLEAN,
                   export_op : BOOLEAN],
          up \in UpperNames \cup {"none"},
          low \in LowerNames \cup {"none"},
          index \in BOOLEAN :
         hres' = [called |-> TRUE, fs |-> fs, upper |-> up, lower |-> low,
                  index |-> index,
                  ret |-> ovl_hash_bylower(fs, up, low, index)]
    /\ UNCHANGED notHash

HashNext == HashByLower

SpecHash == HashInit /\ [][HashNext]_vars

----------------------------------------------------------------------------
(* Claims about the nlink codec.                                           *)

\* the value of a text of decimal digits, least significant digit last
RECURSIVE DigitsValue(_)
DigitsValue(s) ==
    IF s = <<>> THEN 0
    ELSE DigitsValue(SubSeq(s, 1, Len(s) - 1)) * 10 + DigitVal(s[Len(s)])

AllDigits(s) == s # <<>> /\ \A i \in 1..Len(s) : IsDigit(s[i])

\* the record matches [UL][+-][0-9]+
RecordShaped(rec) ==
    /\ Len(rec) >= 3
    /\ rec[1] \in {"U", "L"}
    /\ rec[2] \in {"+", "-"}
    /\ AllDigits(SubSeq(rec, 3, Len(rec)))

RecordDelta(rec) ==
    LET mag == DigitsValue(SubSeq(rec, 3, Len(rec)))
    IN IF rec[2] = "-" THEN -mag ELSE mag

\* the record's base object is the upper inode for U, the lower inode for L
RecordBaseNlink(rec) == IF rec[1] = "U" THEN upper.i_nlink ELSE lower.i_nlink

\* the call of ovl_get_nlink went past the early return and read the xattr
RecordConsulted ==
    dres.called /\ lower.present /\ upper.present /\ lower.i_nlink # 1

\* C2: when ovl_get_nlink reads a well-formed record (selector U or L, a
\* sign, decimal digits, and a resulting count above 0), it returns the link
\* count that the selected base inode has at the time of the call plus the
\* delta of the record.
C2_DecodeAddsDelta ==
    (RecordConsulted /\ upper.xattr.ok /\ RecordShaped(upper.xattr.val)
       /\ RecordBaseNlink(upper.xattr.val) + RecordDelta(upper.xattr.val) > 0)
    => dres.ret =
         RecordBaseNlink(upper.xattr.val) + RecordDelta(upper.xattr.val)

\* the example of the claim: "U+2" read back when the upper inode has 4 links
C2_Witness ==
    /\ dres.called
    /\ upper.xattr = Xattr(<<"U", "+", "2">>)
    /\ upper.i_nlink = 4
    /\ i_nlink = 6
    /\ fresh = "none"
    /\ dres.fallback # 6
    /\ dres.ret = 6

\* C3 as stated: the record written by ovl_set_nlink_upper/lower, read back
\* with the base inode unmodified, gives inode->i_nlink for every link count
\* and every fallback.
C3_RoundTripAlways ==
    (dres.called /\ fresh # "none") => dres.ret = i_nlink

\* C3 amended: the same, when the lower and the upper dentry are both there,
\* the lower inode's link count is not 1 and inode->i_nlink is above 0.
C3_RoundTrip ==
    (dres.called /\ fresh # "none" /\ lower.present /\ upper.present
       /\ lower.i_nlink # 1 /\ i_nlink > 0)
    => dres.ret = i_nlink

\* a negative two-digit delta against the lower inode, read back exactly
C3_Witness ==
    /\ dres.called
    /\ fresh = "L"
    /\ upper.xattr = Xattr(<<"L", "-", "1", "0">>)
    /\ dres.ret = i_nlink
    /\ dres.fallback # i_nlink

\* the stored value is malformed: the attribute cannot be read, the selector
\* or the sign is wrong, the delta is no decimal integer, or the count that
\* results is not above 0
RecordMalformed ==
    \/ ~upper.xattr.ok
    \/ ~RecordShaped(upper.xattr.val)
    \/ RecordBaseNlink(upper.xattr.val) + RecordDelta(upper.xattr.val) <= 0

\* C4: ovl_get_nlink returns the fallback it was given, and a count at all,
\* whenever the stored value is malformed.
C4_MalformedGivesFallback ==
    (dres.called /\ RecordMalformed) => dres.ret = dres.fallback

\* a record that is read and leads to a count of 0
C4_Witness ==
    /\ RecordConsulted
    /\ dres.read
    /\ upper.xattr = Xattr(<<"U", "-", "2">>)
    /\ upper.i_nlink = 2
    /\ dres.ret = dres.fallback

\* C5: without a lower dentry, without an upper dentry, or with a lower inode
\* of link count 1, ovl_get_nlink returns the fallback and does not read the
\* xattr, whatever is stored.
C5_NoRecordConsulted ==
    (dres.called
       /\ (~lower.present \/ ~upper.present \/ lower.i_nlink = 1))
    => (dres.ret = dres.fallback /\ ~dres.read)

\* a well-formed record that would give another count is left unread
C5_Witness ==
    /\ dres.called
    /\ lower.present
    /\ lower.i_nlink = 1
    /\ upper.present
    /\ upper.xattr = Xattr(<<"U", "+", "2">>)
    /\ dres.fallback # upper.i_nlink + 2
    /\ dres.ret = dres.fallback
    /\ ~dres.read

----------------------------------------------------------------------------
(* Claims about ovl_listxattr.                                             *)

StartsWith(name, prefix) ==
    \A i \in 1..Len(prefix) : i <= Len(name) /\ name[i] = prefix[i]

Returned == {lres.names[i] : i \in 1..Len(lres.names)}
Stored == {xnames[i] : i \in 1..Len(xnames)}

\* the call returned a filtered list (not an error, not a length query)
ListReturned == lres.called /\ lres.size # 0 /\ lres.ret >= 0

\* C7: ovl_listxattr returns no name under trusted.overlay. to any caller,
\* names under trusted. only to a caller with CAP_SYS_ADMIN, and every
\* stored name outside trusted. to every caller; the names it returns are
\* stored names in their stored order, and ret is the length of that list.
C7_ListFiltered ==
    /\ lres.called =>
         /\ \A n \in Returned : ~StartsWith(n, OVL_XATTR_PREFIX)
         /\ \A n \in Returned :
               StartsWith(n, XATTR_TRUSTED_PREFIX) => capable
         /\ Returned \subseteq Stored
    /\ ListReturned =>
         /\ \A n \in Stored :
               ~StartsWith(n, XATTR_TRUSTED_PREFIX) => n \in Returned
         /\ \A n \in Stored :
               (capable /\ StartsWith(n, XATTR_TRUSTED_PREFIX)
                  /\ ~StartsWith(n, OVL_XATTR_PREFIX)) => n \in Returned
         /\ \A i, j \in 1..Len(lres.names) :
               i < j =>
                 \E a, b \in 1..Len(xnames) :
                    a < b /\ xnames[a] = lres.names[i]
                          /\ xnames[b] = lres.names[j]
         /\ lres.ret = Len(ListBuffer(lres.names))

\* an inode with one internal and one privileged name, listed by an
\* administrator: only the privileged name comes back
C7_Witness ==
    /\ ListReturned
    /\ capable
    /\ xnames = << OVL_XATTR_PREFIX \o <<"n">>,
                   XATTR_TRUSTED_PREFIX \o <<"k">> >>
    /\ lres.names = << XATTR_TRUSTED_PREFIX \o <<"k">> >>

\* the same inode listed without the capability: neither name comes back
C7_WitnessUnprivileged ==
    /\ ListReturned
    /\ ~capable
    /\ xnames = << OVL_XATTR_PREFIX \o <<"n">>,
                   XATTR_TRUSTED_PREFIX \o <<"k">> >>
    /\ lres.names = <<>>
    /\ lres.ret = 0

----------------------------------------------------------------------------
(* Claims about ovl_getattr.                                               *)

\* the successful stats recorded for a dentry
StatsOf(d) ==
    {r \in {kstat[d].pre, kstat[d].post} : r.called /\ r.err = 0}

\* C8: on a mount with all layers on one filesystem, two overlay dentries
\* with the same lower origin, whose link count is 1, report the same
\* (st_dev, st_ino), copied up or not.
C8_SameOriginSameIdentity ==
    \A d, e \in Dentries :
        (/\ same_sb
         /\ d # e
         /\ dent[d].lower # "none"
         /\ dent[d].lower = dent[e].lower
         /\ LowerInodes[dent[d].lower].nlink = 1)
        => \A r \in StatsOf(d), q \in StatsOf(e) :
              r.dev = q.dev /\ r.ino = q.ino

\* one dentry is copied up and the other is not, and both were stat'ed
C8_Witness ==
    /\ same_sb
    /\ dent["d1"].lower = "L1"
    /\ dent["d2"].lower = "L1"
    /\ dent["d1"].has_upper
    /\ ~dent["d2"].has_upper
    /\ kstat["d1"].post.called /\ kstat["d1"].post.err = 0
    /\ kstat["d2"].pre.called /\ kstat["d2"].pre.err = 0
    /\ kstat["d1"].post.ino = kstat["d2"].pre.ino
    /\ kstat["d1"].post.dev = kstat["d2"].pre.dev

\* C9: on a mount with all layers on one filesystem, a dentry with a lower
\* origin that is a directory, has link count 1 or is flagged OVL_INDEX
\* reports, before and after copy up, st_dev of the overlay and st_ino of
\* the origin.
C9_StableAcrossCopyUp ==
    \A d \in Dentries :
        (/\ same_sb
         /\ dent[d].lower # "none"
         /\ (dent[d].is_dir \/ LowerInodes[dent[d].lower].nlink = 1
               \/ dent[d].index)
         /\ kstat[d].pre.called /\ kstat[d].pre.err = 0
         /\ kstat[d].post.called /\ kstat[d].post.err = 0)
        => /\ kstat[d].pre.dev = OvlDev
           /\ kstat[d].post.dev = OvlDev
           /\ kstat[d].pre.ino = LowerInodes[dent[d].lower].ino
           /\ kstat[d].post.ino = LowerInodes[dent[d].lower].ino

\* the same without the early return under CONFIG_KSU_SUSFS_SUS_OVERLAYFS
C9_StableAcrossCopyUp_Stock ==
    ~ksu_susfs => C9_StableAcrossCopyUp

\* whatever the build, the pair does not change across copy up
C9_PairUnchanged ==
    \A d \in Dentries :
        (/\ same_sb
         /\ dent[d].lower # "none"
         /\ (dent[d].is_dir \/ LowerInodes[dent[d].lower].nlink = 1
               \/ dent[d].index)
         /\ kstat[d].pre.called /\ kstat[d].pre.err = 0
         /\ kstat[d].post.called /\ kstat[d].post.err = 0)
        => /\ kstat[d].pre.dev = kstat[d].post.dev
           /\ kstat[d].pre.ino = kstat[d].post.ino

----------------------------------------------------------------------------
(* Claims about ovl_setattr, ovl_xattr_set and ovl_open_maybe_copy_up.     *)

HasReturned(t) == call[t].pc = "done"

\* C6: ovl_setattr on a dentry without an upper dentry: when it returns 0
\* the dentry has an upper dentry; when setattr_prepare fails it returns
\* that error, has not called ovl_want_write or ovl_copy_up, and the
\* dentry has no upper dentry unless another task copied it up.
C6_SetattrCopiesUp ==
    \A t \in Tasks :
        (call[t].op = "setattr" /\ HasReturned(t) /\ ~call[t].entry_upper)
        => /\ (call[t].err = 0 => a_upper)
           /\ (call[t].prep # 0 =>
                 /\ call[t].err = call[t].prep
                 /\ call[t].acq = 0 /\ ~call[t].wfail
                 /\ call[t].cup = 0
                 /\ promoted_by # t
                 /\ (a_upper => promoted_by \in Tasks))

\* setattr_prepare failed and the dentry is as it was
C6_Witness ==
    /\ call["t1"].op = "setattr"
    /\ HasReturned("t1")
    /\ call["t1"].prep = -EPERM
    /\ call["t1"].err = -EPERM
    /\ ~a_upper
    /\ writers = 0

\* one call failed in setattr_prepare and left the dentry alone, another
\* returned 0 and had created the upper dentry
C6_WitnessBoth ==
    /\ call["t1"].op = "setattr"
    /\ HasReturned("t1")
    /\ ~call["t1"].entry_upper
    /\ call["t1"].prep = -EPERM
    /\ call["t1"].err = -EPERM
    /\ call["t2"].op = "setattr"
    /\ HasReturned("t2")
    /\ ~call["t2"].entry_upper
    /\ call["t2"].err = 0
    /\ promoted_by = "t2"
    /\ a_upper

RECURSIVE HeldBy(_)
HeldBy(ts) ==
    IF ts = {} THEN 0
    ELSE LET t == CHOOSE x \in ts : TRUE
         IN (call[t].acq - call[t].rel) + HeldBy(ts \ {t})

\* C10: when ovl_setattr, ovl_xattr_set or ovl_open_maybe_copy_up has
\* returned, with whatever result, it has dropped the write access as often
\* as it got it; it never drops a write access it did not get; and the
\* mount's count is the number of accesses held by the calls in progress.
C10_WriteBalanced ==
    /\ \A t \in Tasks :
          /\ (HasReturned(t) => call[t].acq = call[t].rel)
          /\ call[t].rel <= call[t].acq
          /\ (call[t].wfail => call[t].acq = 0 /\ call[t].rel = 0)
    /\ writers = HeldBy(Tasks)
    /\ ((\A t \in Tasks : call[t].pc \in {"idle", "done"}) => writers = 0)

\* ovl_xattr_set returned the error of the lower lookup after it had got
\* the write access, and gave it back
C10_Witness ==
    /\ call["t1"].op = "xattr_set"
    /\ HasReturned("t1")
    /\ call["t1"].err = -ENODATA
    /\ call["t1"].acq = 1
    /\ call["t1"].rel = 1
    /\ call["t2"].pc = "idle"
    /\ writers = 0

\* C11: in ovl_setattr, when the ia_valid of the request has ATTR_KILL_SUID
\* or ATTR_KILL_SGID, notify_change on the upper dentry is called without
\* ATTR_MODE and with every other bit of the request; without a kill bit
\* it is called with the request as it came.
C11_KillSuidDropsMode ==
    \A t \in Tasks :
        (call[t].op = "setattr" /\ call[t].notified)
        => /\ ((call[t].req \cap {"ATTR_KILL_SUID", "ATTR_KILL_SGID"} # {})
                => "ATTR_MODE" \notin call[t].applied)
           /\ call[t].applied \ {"ATTR_MODE"} = call[t].req \ {"ATTR_MODE"}
           /\ ((call[t].req \cap {"ATTR_KILL_SUID", "ATTR_KILL_SGID"} = {})
                => call[t].applied = call[t].req)

\* a request with ATTR_MODE and ATTR_KILL_SUID reached notify_change with
\* ATTR_KILL_SUID alone
C11_Witness ==
    /\ call["t1"].op = "setattr"
    /\ call["t1"].notified
    /\ call["t1"].req = {"ATTR_MODE", "ATTR_KILL_SUID"}
    /\ call["t1"].applied = {"ATTR_KILL_SUID"}
    /\ HasReturned("t1")
    /\ call["t1"].err = 0

\* the call of task t is a removal (no value) that found no upper dentry,
\* of an attribute the lower inode does not have
RemovesAbsent(t) ==
    /\ call[t].op = "xattr_set"
    /\ ~call[t].value
    /\ ~call[t].upperdentry
    /\ ~call[t].entry_upper
    /\ ~lower_xattr

\* C19: ovl_xattr_set without value on a dentry without upper dentry, for
\* an attribute that the lower inode does not have, once it has got the
\* write access: it returns the error of vfs_getxattr on the lower dentry,
\* has not called ovl_copy_up, has dropped the write access, and the dentry
\* has no upper dentry unless another task copied it up.  When the write
\* access is refused it returns that error and has not called ovl_copy_up
\* either.
C19_RemoveAbsentNoCopyUp ==
    \A t \in Tasks :
        (RemovesAbsent(t) /\ HasReturned(t))
        => /\ call[t].cup = 0
           /\ promoted_by # t
           /\ (a_upper => promoted_by \in Tasks \ {t})
           /\ IF call[t].wfail
              THEN call[t].err = -EROFS /\ call[t].acq = 0
              ELSE /\ call[t].err = -ENODATA
                   /\ call[t].acq = 1
                   /\ call[t].rel = 1

\* the removal returned -ENODATA with the write access dropped, and the
\* dentry still has no upper dentry
C19_Witness ==
    /\ RemovesAbsent("t1")
    /\ HasReturned("t1")
    /\ ~call["t1"].wfail
    /\ call["t1"].err = -ENODATA
    /\ call["t1"].cup = 0
    /\ call["t1"].rel = 1
    /\ ~a_upper
    /\ promoted_by = "none"
    /\ writers = 0

\* the removal of an attribute that the lower inode has copied the dentry up
C19_WitnessPresent ==
    /\ call["t1"].op = "xattr_set"
    /\ ~call["t1"].value
    /\ ~call["t1"].entry_upper
    /\ lower_xattr
    /\ HasReturned("t1")
    /\ call["t1"].cup = 1
    /\ promoted_by = "t1"
    /\ a_upper

\* the three conditions of the claim, on the dentry as the call found it
OpenMustCopyUp(c) ==
    /\ ~a_special
    /\ c.wr
    /\ ~(c.entry_upper /\ c.entry_alias)

\* C20: ovl_open_maybe_copy_up calls ovl_copy_up_flags, once, after
\* ovl_want_write and before ovl_drop_write, exactly when the inode is not
\* a special file, the open asks for write or truncate, and the dentry does
\* not have an upper dentry with an upper alias (and the write access is
\* granted: when it is refused the call returns that error and copies
\* nothing up).  In every other case it returns 0 and has called neither
\* ovl_want_write nor ovl_copy_up_flags.
C20_OpenCopiesUpWhenNeeded ==
    \A t \in Tasks :
        call[t].op = "open"
        => /\ (call[t].pc = "copy_up" =>
                 call[t].acq = 1 /\ call[t].rel = 0 /\ call[t].cup = 0)
           /\ (call[t].cup > 0 => call[t].acq = 1 /\ OpenMustCopyUp(call[t]))
           /\ (call[t].acq > 0 => OpenMustCopyUp(call[t]))
           /\ (HasReturned(t) =>
                 IF OpenMustCopyUp(call[t])
                 THEN \/ /\ call[t].wfail
                         /\ call[t].err = -EROFS
                         /\ call[t].acq = 0
                         /\ call[t].cup = 0
                      \/ /\ ~call[t].wfail
                         /\ call[t].acq = 1
                         /\ call[t].cup = 1
                         /\ call[t].rel = 1
                 ELSE /\ call[t].err = 0
                      /\ ~call[t].wfail
                      /\ call[t].acq = 0
                      /\ call[t].rel = 0
                      /\ call[t].cup = 0)

\* an open for write of a file without upper dentry copied it up and
\* dropped the write access
C20_Witness ==
    /\ call["t1"].op = "open"
    /\ HasReturned("t1")
    /\ call["t1"].wr
    /\ ~call["t1"].entry_upper
    /\ ~a_special
    /\ call["t1"].err = 0
    /\ call["t1"].acq = 1
    /\ call["t1"].cup = 1
    /\ call["t1"].rel = 1
    /\ promoted_by = "t1"
    /\ a_upper
    /\ call["t2"].pc = "idle"
    /\ writers = 0

\* an open for write of a special file, and a read-only open, returned 0
\* with nothing copied up
C20_WitnessNotNeeded ==
    /\ call["t1"].op = "open"
    /\ HasReturned("t1")
    /\ call["t1"].wr
    /\ a_special
    /\ call["t1"].cup = 0
    /\ call["t2"].op = "open"
    /\ HasReturned("t2")
    /\ ~call["t2"].wr
    /\ call["t2"].cup = 0
    /\ ~a_upper

\* an open for write of a dentry with an upper dentry but no upper alias
\* called ovl_copy_up_flags
C20_WitnessNoAlias ==
    /\ call["t1"].op = "open"
    /\ HasReturned("t1")
    /\ call["t1"].entry_upper
    /\ ~call["t1"].entry_alias
    /\ call["t1"].cup = 1

----------------------------------------------------------------------------
(* Claims about ovl_get_inode.                                             *)

\* the task has returned from ovl_get_inode with an inode it still holds
GotInode(t) == lookup[t].pc = "done" /\ lookup[t].ret > 0

SameRequest(t, u) ==
    /\ lookup[t].upperdentry = lookup[u].upperdentry
    /\ lookup[t].lowerdentry = lookup[u].lowerdentry
    /\ lookup[t].index = lookup[u].index

\* the call looked the inode up in the hash: if (upperdentry || bylower)
Hashes(t) == lookup[t].upperdentry # "none" \/ lookup[t].bylower

\* C1 as stated: calls of ovl_get_inode for the same upper and lower dentry
\* (and index), in any interleaving, that succeed return one and the same
\* inode.
C1_OneInodePerPair ==
    \A t, u \in Tasks :
        (GotInode(t) /\ GotInode(u) /\ SameRequest(t, u))
        => lookup[t].ret = lookup[u].ret

\* C1 amended: the same for the calls that look the inode up in the hash,
\* that is with an upper dentry or with ovl_hash_bylower true; and no two
\* hashed inodes have the same key.
C1_OneInodePerKey ==
    /\ \A t, u \in Tasks :
          (GotInode(t) /\ GotInode(u) /\ SameRequest(t, u) /\ Hashes(t))
          => lookup[t].ret = lookup[u].ret
    /\ \A i, j \in Slots :
          (i # j /\ inodes[i].hashed /\ inodes[j].hashed)
          => inodes[i].i_private # inodes[j].i_private

\* two tasks hold the one inode of a lower file that is hashed by lower
C1_Witness ==
    /\ GotInode("t1")
    /\ GotInode("t2")
    /\ SameRequest("t1", "t2")
    /\ lookup["t1"].lowerdentry = "L1"
    /\ lookup["t1"].upperdentry = "none"
    /\ lookup["t1"].bylower
    /\ lookup["t1"].ret = lookup["t2"].ret
    /\ inodes[lookup["t1"].ret].i_count = 2

\* a dentry is supplied and is not the one the inode stores, which may be
\* none
StaleArgs(inode, lowerdentry, upperdentry) ==
    \/ (lowerdentry # "none" /\ inode.lower # lowerdentry)
    \/ (upperdentry # "none" /\ inode.upper # upperdentry)

\* C12: when ovl_get_inode finds an inode in the hash and the lower dentry
\* supplied is not the inode's lower, or the upper dentry supplied is not
\* the inode's upper (the inode may have none), for a directory or not,
\* the call returns -ESTALE and no inode, and the inodes, the one found
\* with its upper, lower, link count and reference count among them, are as
\* they were before the call.
C12_StaleOnMismatch ==
    [][\A t \in Tasks :
          (/\ lookup[t].pc = "iget5_locked"
           /\ lookup'[t] # lookup[t]
           /\ \E i \in Matching(HashKey(lookup[t])) :
                 StaleArgs(inodes[i], lookup[t].lowerdentry,
                           lookup[t].upperdentry))
          => /\ lookup'[t].pc = "done"
             /\ lookup'[t].ret = -ESTALE
             /\ lookup'[t].inode = 0
             /\ inodes' = inodes]_vars

\* a call with the upper dentry U1 found the inode of L1 that has no upper
\* and got -ESTALE; the other task still holds the inode, alone
C12_Witness ==
    /\ lookup["t2"].pc = "done"
    /\ lookup["t2"].ret = -ESTALE
    /\ lookup["t2"].upperdentry = "U1"
    /\ lookup["t2"].lowerdentry = "L1"
    /\ lookup["t2"].found # 0
    /\ GotInode("t1")
    /\ lookup["t1"].ret = lookup["t2"].found
    /\ inodes[lookup["t1"].ret].upper = "none"
    /\ inodes[lookup["t1"].ret].lower = "L1"
    /\ inodes[lookup["t1"].ret].i_count = 1
    /\ inodes[lookup["t1"].ret].i_nlink = 1

\* the same for a directory, found by its upper with another lower
C12_WitnessDir ==
    /\ lookup["t2"].pc = "done"
    /\ lookup["t2"].ret = -ESTALE
    /\ lookup["t2"].found # 0
    /\ inodes[lookup["t2"].found].is_dir
    /\ inodes[lookup["t2"].found].state = "live"

\* the call sees less than the inode holds: no dentry supplied differs from
\* the stored one, and one is not supplied where the inode stores one
PartialView(inode, lowerdentry, upperdentry) ==
    /\ ~StaleArgs(inode, lowerdentry, upperdentry)
    /\ \/ (lowerdentry = "none" /\ inode.lower # "none")
       \/ (upperdentry = "none" /\ inode.upper # "none")

\* the step of task t that found inode i returns it with one more reference
\* and leaves it as it was otherwise
Reuses(t, i) ==
    /\ lookup'[t].pc = "done"
    /\ lookup'[t].ret = i
    /\ inodes' = [inodes EXCEPT ![i].i_count = @ + 1]

\* C13 as stated: when ovl_get_inode finds an inode, of any kind, through
\* a partial view (a NULL lower or upper where the inode stores one, the
\* dentries supplied being the stored ones), verification passes and the
\* inode is returned.
C13_NoneNeverInvalidates ==
    [][\A t \in Tasks : \A i \in Slots :
          (/\ lookup[t].pc = "iget5_locked"
           /\ lookup'[t] # lookup[t]
           /\ i \in Matching(HashKey(lookup[t]))
           /\ PartialView(inodes[i], lookup[t].lowerdentry,
                          lookup[t].upperdentry))
          => Reuses(t, i)]_vars

\* C13 amended: this holds for the inodes that are not directories; for a
\* directory found through a partial view the call returns -ESTALE.
C13_NoneKeepsNonDir ==
    [][\A t \in Tasks : \A i \in Slots :
          (/\ lookup[t].pc = "iget5_locked"
           /\ lookup'[t] # lookup[t]
           /\ i \in Matching(HashKey(lookup[t]))
           /\ PartialView(inodes[i], lookup[t].lowerdentry,
                          lookup[t].upperdentry))
          => IF inodes[i].is_dir
             THEN /\ lookup'[t].ret = -ESTALE
                  /\ inodes' = inodes
             ELSE Reuses(t, i)]_vars

\* the inode of the upper file U1 with origin L1 was found by a call with
\* the lower dentry alone, and both tasks hold it
C13_Witness ==
    /\ GotInode("t1")
    /\ GotInode("t2")
    /\ lookup["t2"].upperdentry = "none"
    /\ lookup["t2"].lowerdentry = "L1"
    /\ lookup["t2"].found = lookup["t1"].ret
    /\ lookup["t2"].ret = lookup["t1"].ret
    /\ inodes[lookup["t2"].ret].upper = "U1"
    /\ inodes[lookup["t2"].ret].lower = "L1"
    /\ ~inodes[lookup["t2"].ret].is_dir
    /\ inodes[lookup["t2"].ret].i_count = 2

\* the directory inode of U3 over L3 was found by a call with the lower
\* dentry alone, which got -ESTALE
C13_WitnessDir ==
    /\ GotInode("t1")
    /\ lookup["t2"].pc = "done"
    /\ lookup["t2"].ret = -ESTALE
    /\ lookup["t2"].upperdentry = "none"
    /\ lookup["t2"].lowerdentry = "L3"
    /\ lookup["t2"].found = lookup["t1"].ret
    /\ inodes[lookup["t1"].ret].upper = "U3"
    /\ inodes[lookup["t1"].ret].lower = "L3"
    /\ inodes[lookup["t1"].ret].is_dir

----------------------------------------------------------------------------
(* Claims about ovl_hash_bylower.                                          *)

\* the lower dentry is a non-directory with more than one link
LowerHardlink(low) ==
    low # "none" /\ ~LowerInodes[low].is_dir /\ LowerInodes[low].nlink > 1

\* the rules of the claim in their order: when a rule applies, and whether
\* it keys by lower
HashRules(fs, up, low, index) ==
    <<[applies |-> low = "none", bylower |-> FALSE],
      [applies |-> index, bylower |-> TRUE],
      [applies |-> ~fs.upper_mnt, bylower |-> TRUE],
      [applies |-> LowerHardlink(low) /\ (up # "none" \/ ~fs.indexdir),
       bylower |-> FALSE],
      [applies |-> fs.export_op /\ up # "none", bylower |-> FALSE],
      [applies |-> TRUE, bylower |-> TRUE]>>

FirstRule(rules) ==
    rules[CHOOSE k \in 1..Len(rules) :
            rules[k].applies /\ \A j \in 1..(k - 1) : ~rules[j].applies]

\* C14: ovl_hash_bylower returns what the first rule that applies says, in
\* the order: no lower - by upper; index - by lower; no upper mount - by
\* lower; lower non-directory with nlink > 1 and (an upper or no index dir)
\* - by upper; export ops and an upper - by upper; else by lower.  With a
\* lower and an index it keys by lower whatever the rest.
C14_FirstRuleDecides ==
    hres.called
    => /\ hres.ret = FirstRule(HashRules(hres.fs, hres.upper, hres.lower,
                                         hres.index)).bylower
       /\ ((hres.lower # "none" /\ hres.index) => hres.ret)

\* keyed by lower for an index, though the lower is a hard link, there is
\* an upper and the mount has export ops
C14_Witness ==
    /\ hres.called
    /\ hres.index
    /\ hres.lower = "L2"
    /\ hres.upper = "U2"
    /\ hres.fs.export_op
    /\ hres.fs.upper_mnt
    /\ hres.ret

----------------------------------------------------------------------------
(* Claims about the inodes that ovl_get_inode does not hash.               *)

\* the call is for a lower hard link alone, without index, on a mount with
\* an upper layer and no index dir
LowerOnlyHardlink(c) ==
    /\ c.pc # "idle"
    /\ c.upperdentry = "none"
    /\ LowerHardlink(c.lowerdentry)
    /\ ~c.index
    /\ ofs.upper_mnt
    /\ ~ofs.indexdir

\* C15: a call of ovl_get_inode for a lower-only non-directory with
\* nlink > 1, no index, on a mount with an upper layer and no index dir,
\* never looks in the inode hash: it never fails with -ESTALE, and the
\* inode it gets is new, not hashed, and held by this call alone.
C15_HardlinkNeverHashed ==
    \A t \in Tasks :
        LowerOnlyHardlink(lookup[t])
        => /\ ~lookup[t].bylower
           /\ lookup[t].pc # "iget5_locked"
           /\ lookup[t].found = 0
           /\ lookup[t].ret # -ESTALE
           /\ (lookup[t].inode # 0 =>
                 /\ ~inodes[lookup[t].inode].hashed
                 /\ inodes[lookup[t].inode].i_count = 1
                 /\ \A u \in Tasks \ {t} :
                       lookup[u].inode # lookup[t].inode)

\* two calls for the lower hard link L2 returned two inodes, neither hashed
C15_Witness ==
    /\ LowerOnlyHardlink(lookup["t1"])
    /\ LowerOnlyHardlink(lookup["t2"])
    /\ lookup["t1"].lowerdentry = "L2"
    /\ lookup["t2"].lowerdentry = "L2"
    /\ GotInode("t1")
    /\ GotInode("t2")
    /\ lookup["t1"].ret # lookup["t2"].ret
    /\ ~inodes[lookup["t1"].ret].hashed
    /\ ~inodes[lookup["t2"].ret].hashed
    /\ inodes[lookup["t1"].ret].state = "live"
    /\ inodes[lookup["t2"].ret].state = "live"

----------------------------------------------------------------------------
(* Claims about the link count that ovl_get_inode sets.                    *)

\* task t leaves iget5_locked with an inode found in the hash
FoundStep(t) ==
    /\ lookup[t].pc = "iget5_locked"
    /\ lookup'[t].pc = "done"
    /\ lookup'[t].ret > 0

\* task t finishes the new inode it holds
FillStep(t) == lookup[t].pc = "fill" /\ lookup'[t].pc = "done"

\* what ovl_get_nlink gives for the dentries of the call with this fallback
Decoded(c, fallback) ==
    ovl_get_nlink(LowerDentry(c.lowerdentry), UpperDentry(c.upperdentry),
                  fallback).ret

\* the inode that stands for the call: the upper one if there is one
CallIsDir(c) ==
    IF c.upperdentry # "none" THEN UpperInodes[c.upperdentry].is_dir
    ELSE LowerInodes[c.lowerdentry].is_dir

\* C16 as stated, for the calls with a lower dentry that hash the inode: a
\* new non-directory inode gets ovl_get_nlink(lower, upper) with the link
\* count of the lower inode as the fallback.
C16_FallbackIsLower ==
    [][\A t \in Tasks :
          (/\ FillStep(t)
           /\ inodes[lookup[t].inode].hashed
           /\ lookup[t].lowerdentry # "none"
           /\ ~CallIsDir(lookup[t]))
          => inodes'[lookup[t].inode].i_nlink
               = Decoded(lookup[t],
                         LowerInodes[lookup[t].lowerdentry].nlink)]_vars

\* C16 amended: a call that finds an inode leaves its link count alone; a
\* new hashed directory inode gets 1; a new hashed non-directory inode gets
\* ovl_get_nlink(lower, upper) with, as the fallback, the link count of the
\* upper inode when the call has an upper dentry and of the lower inode
\* otherwise; a new inode that is not hashed keeps the link count it was
\* allocated with.
C16_NlinkAssigned ==
    [][\A t \in Tasks :
          /\ FoundStep(t) =>
                inodes'[lookup'[t].ret].i_nlink
                  = inodes[lookup'[t].ret].i_nlink
          /\ FillStep(t) =>
                inodes'[lookup[t].inode].i_nlink
                  = IF ~inodes[lookup[t].inode].hashed
                    THEN inodes[lookup[t].inode].i_nlink
                    ELSE IF CallIsDir(lookup[t]) THEN 1
                    ELSE Decoded(lookup[t],
                           IF lookup[t].upperdentry # "none"
                           THEN UpperInodes[lookup[t].upperdentry].nlink
                           ELSE LowerInodes[lookup[t].lowerdentry].nlink)]_vars

\* the new inode of U2 over the hard link L2 got the 3 of the record "L+1"
\* and a second call found it with that count
C16_Witness ==
    /\ GotInode("t1")
    /\ GotInode("t2")
    /\ lookup["t1"].upperdentry = "U2"
    /\ lookup["t1"].lowerdentry = "L2"
    /\ lookup["t2"].found = lookup["t1"].ret
    /\ lookup["t2"].ret = lookup["t1"].ret
    /\ inodes[lookup["t1"].ret].hashed
    /\ inodes[lookup["t1"].ret].i_nlink = 3

\* the new inode of U2 over L1 got the 2 of the upper inode, not the 1 of
\* the lower inode
C16_WitnessFallback ==
    /\ GotInode("t1")
    /\ lookup["t1"].upperdentry = "U2"
    /\ lookup["t1"].lowerdentry = "L1"
    /\ inodes[lookup["t1"].ret].hashed
    /\ inodes[lookup["t1"].ret].i_nlink = 2
    /\ LowerInodes["L1"].nlink = 1

\* a new directory inode has the link count 1 though the upper directory
\* has 2
C16_WitnessDir ==
    /\ GotInode("t1")
    /\ lookup["t1"].upperdentry = "U3"
    /\ inodes[lookup["t1"].ret].is_dir
    /\ inodes[lookup["t1"].ret].i_nlink = 1
    /\ UpperInodes["U3"].nlink = 2

----------------------------------------------------------------------------
(* Claims about ovl_permission.                                            *)

\* C17: ovl_permission on an inode without upper inode whose lower inode
\* is not a special file, with MAY_WRITE in the mask: inode_permission is
\* called on the lower inode with MAY_WRITE and MAY_APPEND removed and
\* MAY_READ added, so never with MAY_WRITE; in every other case (an upper
\* inode, a special file, no MAY_WRITE) it is called with the mask of the
\* caller.
C17_WriteCheckedAsRead ==
    (pres.called /\ pres.real)
    => IF ~pnode.upper /\ ~pnode.special /\ "MAY_WRITE" \in pres.mask
       THEN /\ pres.realinode = "lower"
            /\ pres.realmask
                 = (pres.mask \ {"MAY_WRITE", "MAY_APPEND"})
                     \cup {"MAY_READ"}
            /\ "MAY_WRITE" \notin pres.realmask
            /\ "MAY_APPEND" \notin pres.realmask
            /\ "MAY_READ" \in pres.realmask
       ELSE pres.realmask = pres.mask

\* a write with append on a lower file was checked as a read
C17_Witness ==
    /\ pres.called
    /\ pres.real
    /\ ~pnode.upper
    /\ pnode.lower
    /\ ~pnode.special
    /\ pres.mask = {"MAY_WRITE", "MAY_APPEND"}
    /\ pres.realinode = "lower"
    /\ pres.realmask = {"MAY_READ"}
    /\ pres.ret = 0

\* a write on a lower special file was checked as a write
C17_WitnessSpecial ==
    /\ pres.called
    /\ pres.real
    /\ ~pnode.upper
    /\ pnode.special
    /\ pres.mask = {"MAY_WRITE"}
    /\ pres.realinode = "lower"
    /\ pres.realmask = {"MAY_WRITE"}

\* C18: ovl_permission with MAY_NOT_BLOCK on an inode that has neither an
\* upper nor a lower inode returns -ECHILD, whatever the mask: neither
\* generic_permission nor inode_permission is called, so the result is
\* never 0 and never their denial.
C18_NoRealInodeEchild ==
    (/\ pres.called
     /\ ~pnode.upper
     /\ ~pnode.lower
     /\ "MAY_NOT_BLOCK" \in pres.mask)
    => /\ pres.ret = -ECHILD
       /\ pres.ret # 0
       /\ pres.ret # -EACCES
       /\ ~pres.generic
       /\ ~pres.real
       /\ ~pres.warned

\* a non-blocking write check on an inode without real inode got -ECHILD
C18_Witness ==
    /\ pres.called
    /\ ~pnode.upper
    /\ ~pnode.lower
    /\ pres.mask = {"MAY_WRITE", "MAY_NOT_BLOCK"}
    /\ pres.ret = -ECHILD

\* ---- Claims about the lock of the upper inode ----

\* the statements of ovl_setattr between inode_lock and inode_unlock
LockedSection == {"notify_change", "copyattr", "inode_unlock"}

InSection(t) == call[t].op = "setattr" /\ call[t].pc \in LockedSection

\* a task in the section holds the lock, so no two tasks are in it; the
\* lock is held by a task in the section only, so it is free after every
\* return; the overlay inode is behind the upper inode only while the
\* holder of the lock stands before ovl_copyattr
SectionLocked ==
    /\ \A t \in Tasks : InSection(t) => i_rwsem = t
    /\ \A t \in Tasks : i_rwsem = t => InSection(t)
    /\ \A t \in Tasks : HasReturned(t) => i_rwsem # t
    /\ i_rwsem \in Tasks \cup {"none"}
    /\ (ovl_attr = "stale" =>
          \E t \in Tasks : i_rwsem = t /\ call[t].pc = "copyattr")
    /\ ((\A t \in Tasks : call[t].pc \in {"idle", "done"}) =>
          i_rwsem = "none" /\ ovl_attr = "fresh")

\* the step of vfs_setxattr or vfs_removexattr in ovl_xattr_set
XattrApplied(t) ==
    /\ call[t].op = "xattr_set"
    /\ call[t].pc = "apply"
    /\ call'[t].pc # "apply"

\* a change of the xattrs is made while no ovl_setattr is in its section,
\* with the overlay inode equal to the upper inode
XattrOutsideSection ==
    \A t \in Tasks :
        XattrApplied(t) =>
            /\ i_rwsem = "none"
            /\ ovl_attr = "fresh"
            /\ \A u \in Tasks : ~InSection(u)

C21_WitnessError ==
    /\ call["t1"].op = "setattr"
    /\ HasReturned("t1")
    /\ call["t1"].notified
    /\ call["t1"].err = -EACCES
    /\ call["t2"].pc = "idle"
    /\ i_rwsem = "none"
    /\ ovl_attr = "fresh"

\* ovl_xattr_set stands before vfs_setxattr while ovl_setattr is between
\* notify_change and ovl_copyattr
C21_WitnessXattrWaits ==
    /\ call["t1"].op = "setattr"
    /\ call["t1"].pc = "copyattr"
    /\ i_rwsem = "t1"
    /\ ovl_attr = "stale"
    /\ call["t2"].op = "xattr_set"
    /\ call["t2"].pc = "apply"

=============================================================================
